---------------------------- MODULE Spec2Model ----------------------------
(***************************************************************************)
(* A model of dtzeng/ics-f13:                                              *)
(*   - simple-allocator/mm.c : segregated free-list allocator              *)
(*   - simple-proxy/cache.c  : MRA/LRA object cache                        *)
(*   - simple-proxy/proxy.c  : per-connection worker threads               *)
(* The allocator's heap is modelled byte for byte: headers, footers and    *)
(* free-list links are 8-byte little-endian words in the same memory the   *)
(* user's payload bytes live in.                                           *)
(***************************************************************************)
EXTENDS Integers, Sequences, FiniteSets, TLC

VARIABLES
  \* ---- allocator (mm.c) and its extender (memlib)
  mem,         \* the arena: word index -> the word stored there
  mem_brk,     \* the extender's current break
  mem_max,     \* the extender's limit: mem_sbrk fails beyond it
  junk,        \* the byte value fresh arena memory happens to hold
  heap_listp,  \* mm.c:137
  seg_listp,   \* mm.c:138
  last_segp,   \* mm.c:139
  live,        \* caller's view: payload pointer -> [req, pat, plen]
  last,        \* the last allocator call: its arguments, result, outcome
  crashed,     \* NoFault, or where the process faulted (null dereference)
  ncalls,      \* how many calls have changed the arena so far
  \* ---- cache (cache.c)
  C,           \* the cache struct: [bytes_left, MRA, LRA]
  max_size,    \* the argument cache_init was called with
  objects,     \* allocated object structs: address -> its fields
  freed,       \* addresses of the object structs cache_remove has freed
  inserted,    \* the calls of cache_insert so far:
               \* [obj, size, req, linked, by]
  cache_fault, \* NoFault, or where the process faulted
  clast,       \* the last cache call: [op, obj, ret, evicted]
  \* ---- proxy workers (proxy.c)
  rwlock,      \* [readers: set of tasks, writer: a task or NoTask]
  pc,          \* task -> its position in new_request
  request,     \* task -> the request line it read
  retrieve,    \* task -> its local `retrieve`
  found,       \* task -> its local `found`
  found_hold,  \* task -> the read-lock hold in which find_request ran
  holds,       \* task -> how many times it has taken the read lock
  total_size,  \* task -> its local `total_size`
  new_obj,     \* task -> the object it built for the cache
  sent,        \* task -> what it sent from the cache: [obj, state]
  \* ---- one worker followed call by call (proxy.c:85-184)
  worker,      \* its position, locals, errno and the two sockets
  observed     \* what the client, the upstream and the cache saw of it

mmvars == <<mem, mem_brk, mem_max, junk, heap_listp, seg_listp, last_segp,
            live, last, crashed, ncalls>>

cachevars == <<C, max_size, objects, freed, inserted, cache_fault, clast>>

reqvars == <<worker, observed>>

proxyvars == <<rwlock, pc, request, retrieve, found, found_hold, holds,
               total_size, new_obj, sent, reqvars>>

vars == <<mmvars, cachevars, proxyvars>>

-----------------------------------------------------------------------------
(* Program constants of mm.c *)

ALIGNMENT == 8
WSIZE == 4
DSIZE == 8
QSIZE == 16
CHUNKSIZE == 260
SEGS == 5
RATIO == 6
LASTCLASS == 1296
NULL == 0
NoFault == "none"

(* Bounds of the model *)

\* where the extender's arena starts (any 8-aligned non-null address)
mem_start == 16
\* the largest arena the extender hands out, in bytes
MaxHeap == 608
\* the most payload pointers the caller holds at once
MaxLive == 3
\* the most arena-changing calls the caller makes in one run
MaxCalls == 4

\* arena sizes the extender may be configured with: too small for mm_init's
\* first request, too small for the first chunk, and MaxHeap
HeapCaps == {64, 200, MaxHeap}
\* request sizes the caller uses
ReqSizes == {1, 104, 256}
\* the element size the caller passes to calloc
CallocSize == 20
\* bytes the caller writes into payloads
Patterns == {171}
\* what fresh arena memory may hold
JunkBytes == {205}

MAX(x, y) == IF x > y THEN x ELSE y
MIN(x, y) == IF x < y THEN x ELSE y

-----------------------------------------------------------------------------
(* Memory.  mem maps a word index (address \div 8) to the 8 bytes stored   *)
(* there.  A word whose value is below 2^24 is kept as the 1-tuple <<v>>,  *)
(* any other word as the tuple of its 8 bytes, least significant first:    *)
(* every content has exactly one representation.  mm.c's GET/PUT read and  *)
(* write an unsigned long (8 bytes, little-endian) at a byte address.      *)

BigWord == 16777216

\* the 8 bytes of a stored word
Bytes(w) ==
  IF Len(w) = 1
  THEN <<w[1] % 256, (w[1] \div 256) % 256, (w[1] \div 65536) % 256,
         0, 0, 0, 0, 0>>
  ELSE w

\* the stored form of 8 bytes
Norm(b) ==
  IF \A i \in 4..8 : b[i] = 0
  THEN <<b[1] + 256 * b[2] + 65536 * b[3]>>
  ELSE b

\* the value of a stored word, BigWord standing for anything >= 2^24
Val(w) == IF Len(w) = 1 THEN w[1] ELSE BigWord

ByteAt(m, a) == Bytes(m[a \div 8])[(a % 8) + 1]

\* m with the n bytes at a .. a+n-1 replaced by src[0] .. src[n-1]
WriteBytes(m, a, n, src(_)) ==
  [w \in DOMAIN m |->
     IF 8 * w + 7 < a \/ 8 * w >= a + n THEN m[w]
     ELSE Norm([k \in 1..8 |->
                  LET x == 8 * w + (k - 1) IN
                  IF x >= a /\ x < a + n THEN src(x - a) ELSE Bytes(m[w])[k]])]

GET(m, p) ==
  IF p % 8 = 0 THEN Val(m[p \div 8])
  ELSE Val(Norm([k \in 1..8 |-> ByteAt(m, p + k - 1)]))

PUT(m, p, val) ==
  IF p % 8 = 0 THEN [m EXCEPT ![p \div 8] = <<val>>]
  ELSE LET b == Bytes(<<val>>)
           byte(i) == b[i + 1]
       IN WriteBytes(m, p, 8, byte)

ALIGN(p) == ((p + (ALIGNMENT - 1)) \div 8) * 8

\* (size) | (alloc), alloc a single bit
PACK(size, alloc) == IF size % 2 = 1 THEN size ELSE size + alloc

GET_SIZE(m, p) == (GET(m, p) \div 8) * 8
GET_ALLOC(m, p) == GET(m, p) % 2

HDRP(bp) == bp - DSIZE
FTRP(m, bp) == bp + GET_SIZE(m, HDRP(bp)) - QSIZE
NEXT_BLKP(m, bp) == bp + GET_SIZE(m, bp - DSIZE)
PREV_BLKP(m, bp) == bp - GET_SIZE(m, bp - QSIZE)
NEXT_PTR(bp) == bp
PREV_PTR(bp) == bp + DSIZE
NEXT_FREEBLKP(m, bp) == GET(m, NEXT_PTR(bp))
PREV_FREEBLKP(m, bp) == GET(m, PREV_PTR(bp))

RECURSIVE bucket_log(_)
bucket_log(num) == IF num = 0 THEN 0 ELSE 1 + bucket_log(num \div RATIO)

bucket(size) ==
  LET num == size \div (2 * QSIZE) IN
  IF num >= LASTCLASS THEN (SEGS - 1) * DSIZE
  ELSE bucket_log(num \div RATIO) * DSIZE

-----------------------------------------------------------------------------
(* The extender (memlib): grows the arena by incr bytes and returns the    *)
(* old break, or fails with -1 when the arena's limit would be passed.     *)
(* A heap state h is a record [mem, mem_brk, heap_listp, seg_listp,        *)
(* last_segp, ret, sbrk_failed, crash].                                    *)

mem_sbrk(h, incr) ==
  IF h.mem_brk + incr > mem_max
  THEN [h EXCEPT !.ret = -1, !.sbrk_failed = TRUE]
  ELSE [h EXCEPT !.ret = h.mem_brk,
                 !.mem_brk = h.mem_brk + incr,
                 !.mem = [w \in (mem_start \div 8)..((h.mem_brk + incr - 1) \div 8) |->
                            IF w \in DOMAIN h.mem THEN h.mem[w]
                            ELSE <<junk, junk, junk, junk, junk, junk, junk, junk>>]]

mem_heap_lo == mem_start
mem_heap_hi(h) == h.mem_brk - 1

-----------------------------------------------------------------------------
(* Internal helpers of mm.c *)

\* PUT(p, val), PUT(FTRP(bp), val) and PUT(HDRP(NEXT_BLKP(bp)), val) on a
\* heap record; FTRP and NEXT_BLKP read the header as it is at that point
PutH(h, p, val) == [h EXCEPT !.mem = PUT(h.mem, p, val)]
PutFtr(h, bp, val) == PutH(h, FTRP(h.mem, bp), val)
PutNextHdr(h, bp, val) == PutH(h, HDRP(NEXT_BLKP(h.mem, bp)), val)

\* PUT(HDRP(bp), PACK(size, alloc)); PUT(FTRP(bp), PACK(size, alloc))
PutHdrFtr(h, bp, size, alloc) ==
  PutFtr(PutH(h, HDRP(bp), PACK(size, alloc)), bp, PACK(size, alloc))

\* faulty variant: the block is left in its class list
splice_nothing(h, bp_prev, bp_next, size) == h

splice_together(h, bp_prev, bp_next, size) ==
  IF bp_prev = NULL /\ bp_next = NULL
  THEN PutH(h, h.seg_listp + bucket(size), NULL)
  ELSE IF bp_prev = NULL /\ bp_next # NULL
  THEN PutH(PutH(h, h.seg_listp + bucket(size), bp_next),
            PREV_PTR(bp_next), NULL)
  ELSE IF bp_prev # NULL /\ bp_next = NULL
  THEN PutH(h, NEXT_PTR(bp_prev), NULL)
  ELSE PutH(PutH(h, NEXT_PTR(bp_prev), bp_next), PREV_PTR(bp_next), bp_prev)

\* splice_together(NEXT_FREEBLKP(blk)'s and PREV_FREEBLKP(blk)'s values,
\* GET_SIZE(HDRP(blk))): a free neighbour leaves its class list
splice_out(h, blk) ==
  splice_together(h, PREV_FREEBLKP(h.mem, blk), NEXT_FREEBLKP(h.mem, blk),
                  GET_SIZE(h.mem, HDRP(blk)))

\* if(seg_bucket != NULL) PUT_ADDRESS(PREV_PTR(seg_bucket), bp)
link_old_root(h, seg_bucket, bp) ==
  IF seg_bucket # NULL THEN PutH(h, PREV_PTR(seg_bucket), bp) ELSE h

\* "Insert coalesced block at root" with bucket_ptr and seg_bucket read
insert_at(h, bp, bucket_ptr, seg_bucket) ==
  [PutH(link_old_root(PutH(PutH(h, NEXT_PTR(bp), seg_bucket),
                           PREV_PTR(bp), NULL),
                      seg_bucket, bp),
        bucket_ptr, bp)
     EXCEPT !.ret = bp]

\* faulty variant: the block goes to the first class whatever its size
insert_root_first_class(h, bp, size) ==
  insert_at(h, bp, h.seg_listp, GET(h.mem, h.seg_listp))

\* "Insert coalesced block at root": the tail of each case of coalesce
insert_root(h, bp, size) ==
  insert_at(h, bp, h.seg_listp + bucket(size),
            GET(h.mem, h.seg_listp + bucket(size)))

\* Case 2, after the successor was spliced out
coalesce_next(h, bp, size, next_adjblock) ==
  insert_root(PutHdrFtr(h, bp, size + GET_SIZE(h.mem, HDRP(next_adjblock)), 0),
              bp, size + GET_SIZE(h.mem, HDRP(next_adjblock)))

\* Case 3, after the predecessor was spliced out
coalesce_prev(h, bp, size, prev_adjblock) ==
  insert_root(PutH(PutFtr(h, bp, PACK(size + GET_SIZE(h.mem, HDRP(prev_adjblock)), 0)),
                   HDRP(prev_adjblock),
                   PACK(size + GET_SIZE(h.mem, HDRP(prev_adjblock)), 0)),
              prev_adjblock, size + GET_SIZE(h.mem, HDRP(prev_adjblock)))

\* Case 4, the two header writes with the summed size
coalesce_write_both(h, size, prev_adjblock, next_adjblock) ==
  insert_root(PutFtr(PutH(h, HDRP(prev_adjblock), PACK(size, 0)),
                     next_adjblock, PACK(size, 0)),
              prev_adjblock, size)

\* Case 4, after both neighbours were spliced out
coalesce_sum_both(h, size, prev_adjblock, next_adjblock) ==
  coalesce_write_both(h, size + GET_SIZE(h.mem, HDRP(prev_adjblock))
                              + GET_SIZE(h.mem, FTRP(h.mem, next_adjblock)),
                      prev_adjblock, next_adjblock)

\* Case 4, after the successor was spliced out: prev_adjblock is read and
\* spliced out next
coalesce_both(h, bp, size, next_adjblock) ==
  coalesce_sum_both(splice_out(h, PREV_BLKP(h.mem, bp)), size,
                    PREV_BLKP(h.mem, bp), next_adjblock)

\* faulty variant: Case 1 whatever the neighbours are
coalesce_case1_only(h, bp) ==
  insert_root(h, bp, GET_SIZE(h.mem, HDRP(bp)))

coalesce(h, bp) ==
  LET m == h.mem
      prev_alloc == GET_ALLOC(m, FTRP(m, PREV_BLKP(m, bp)))
      next_alloc == GET_ALLOC(m, HDRP(NEXT_BLKP(m, bp)))
      size == GET_SIZE(m, HDRP(bp))
  IN
  IF prev_alloc = 1 /\ next_alloc = 1 THEN            \* Case 1
    insert_root(h, bp, size)
  ELSE IF prev_alloc = 1 /\ next_alloc = 0 THEN       \* Case 2
    coalesce_next(splice_out(h, NEXT_BLKP(m, bp)), bp, size, NEXT_BLKP(m, bp))
  ELSE IF prev_alloc = 0 /\ next_alloc = 1 THEN       \* Case 3
    coalesce_prev(splice_out(h, PREV_BLKP(m, bp)), bp, size, PREV_BLKP(m, bp))
  ELSE                                                \* Case 4
    coalesce_both(splice_out(h, NEXT_BLKP(m, bp)), bp, size, NEXT_BLKP(m, bp))

\* extend_heap after mem_sbrk(size) gave s
extend_heap_at(s, size) ==
  IF s.ret = -1 THEN [s EXCEPT !.ret = NULL]
  ELSE coalesce(PutNextHdr(PutHdrFtr(s, s.ret, size, 0), s.ret, PACK(0, 1)),
                s.ret)

\* faulty variant: an odd number of words is not rounded up
EvenWords_as_given(words) == words * WSIZE

\* bytes for an even number of words
EvenWords(words) ==
  IF words % 2 = 1 THEN (words + 1) * WSIZE ELSE words * WSIZE

extend_heap(h, words) ==
  extend_heap_at(mem_sbrk(h, EvenWords(words)), EvenWords(words))

\* place's split: h has bp's new header and footer; the remainder follows
place_rest(h, bp, rest, prev_free, next_free, csize) ==
  coalesce(splice_together(PutHdrFtr(h, NEXT_BLKP(h.mem, bp), rest, 0),
                           prev_free, next_free, csize),
           NEXT_BLKP(h.mem, bp))

\* faulty variant: the block is never split
place_never_splits(h, bp, asize) ==
  splice_together(PutHdrFtr(h, bp, GET_SIZE(h.mem, HDRP(bp)), 1),
                  PREV_FREEBLKP(h.mem, bp), NEXT_FREEBLKP(h.mem, bp),
                  GET_SIZE(h.mem, HDRP(bp)))

place(h, bp, asize) ==
  LET m == h.mem
      csize == GET_SIZE(m, HDRP(bp))
      next_free == NEXT_FREEBLKP(m, bp)
      prev_free == PREV_FREEBLKP(m, bp)
  IN
  IF csize - asize >= 2 * QSIZE
  THEN place_rest(PutHdrFtr(h, bp, asize, 1), bp, csize - asize,
                  prev_free, next_free, csize)
  ELSE splice_together(PutHdrFtr(h, bp, csize, 1), prev_free, next_free, csize)

\* faulty variant: the first block that fits is taken
RECURSIVE find_fit_class_first(_, _, _, _, _, _)
find_fit_class_first(m, bp, asize, result, smallest, count) ==
  IF bp = NULL THEN NULL
  ELSE IF asize <= GET_SIZE(m, HDRP(bp)) THEN bp
  ELSE find_fit_class_first(m, GET(m, bp), asize, result, smallest, count)

\* the inner loop of find_fit: one class list, best of the first ten fits
RECURSIVE find_fit_class(_, _, _, _, _, _)
find_fit_class(m, bp, asize, result, smallest, count) ==
  IF bp = NULL \/ count >= 10 THEN result
  ELSE
    LET sz == GET_SIZE(m, HDRP(bp)) IN
    IF asize <= sz THEN
      IF result = NULL \/ sz < smallest THEN
        IF sz = asize THEN bp
        ELSE find_fit_class(m, GET(m, bp), asize, bp, sz, count + 1)
      ELSE find_fit_class(m, GET(m, bp), asize, result, smallest, count + 1)
    ELSE find_fit_class(m, GET(m, bp), asize, result, smallest, count)

\* faulty variant: the walk does not stop after ten fits
RECURSIVE find_fit_class_steps_all(_, _, _, _, _, _)
find_fit_class_steps_all(m, bp, asize, result, smallest, count) ==
  IF bp = NULL THEN 0
  ELSE 1 + find_fit_class_steps_all(m, GET(m, bp), asize, result, smallest, count)

\* the number of list nodes the inner loop of find_fit visits (executions
\* of its body) in one class
RECURSIVE find_fit_class_steps(_, _, _, _, _, _)
find_fit_class_steps(m, bp, asize, result, smallest, count) ==
  IF bp = NULL \/ count >= 10 THEN 0
  ELSE
    LET sz == GET_SIZE(m, HDRP(bp)) IN
    IF asize <= sz THEN
      IF result = NULL \/ sz < smallest THEN
        IF sz = asize THEN 1
        ELSE 1 + find_fit_class_steps(m, GET(m, bp), asize, bp, sz, count + 1)
      ELSE 1 + find_fit_class_steps(m, GET(m, bp), asize, result, smallest,
                                    count + 1)
    ELSE 1 + find_fit_class_steps(m, GET(m, bp), asize, result, smallest, count)

\* the outer loop of find_fit, from class pointer b_ptr upwards.  Reading a
\* class head outside the arena (seg_listp still null) faults.
RECURSIVE find_fit_from(_, _, _)
find_fit_from(h, b_ptr, asize) ==
  IF b_ptr > h.last_segp THEN [ret |-> NULL, crash |-> NoFault]
  ELSE IF b_ptr < mem_start \/ b_ptr + 7 >= h.mem_brk
  THEN [ret |-> NULL, crash |-> "find_fit: GET_ADDRESS(null class head)"]
  ELSE
    LET result == find_fit_class(h.mem, GET(h.mem, b_ptr), asize, NULL, 0, 0) IN
    IF result # NULL THEN [ret |-> result, crash |-> NoFault]
    ELSE find_fit_from(h, b_ptr + DSIZE, asize)

\* faulty variant: the search starts one class too high
find_fit_above(h, asize) ==
  find_fit_from(h, h.seg_listp + bucket(asize) + DSIZE, asize)

find_fit(h, asize) == find_fit_from(h, h.seg_listp + bucket(asize), asize)

-----------------------------------------------------------------------------
(* The public entry points of mm.c *)

\* the words mm_init writes into the 72 bytes at hp, and the three globals
mm_init_layout(s, hp) ==
  [PutH(PutH(PutH(PutH(PutH(PutH(PutH(PutH(s,
       hp + 1 * DSIZE, NULL),
       hp + 2 * DSIZE, NULL),
       hp + 3 * DSIZE, NULL),
       hp + 4 * DSIZE, NULL),
       hp + 5 * DSIZE, NULL),
       hp + (SEGS + 1) * DSIZE, PACK(QSIZE, 1)),
       hp + (SEGS + 2) * DSIZE, PACK(QSIZE, 1)),
       hp + (SEGS + 3) * DSIZE, PACK(0, 1))
     EXCEPT !.seg_listp = hp + DSIZE,
            !.last_segp = hp + SEGS * DSIZE,
            !.heap_listp = hp + (SEGS + 2) * DSIZE]

\* mm_init's result once extend_heap(CHUNKSIZE/WSIZE) gave e
mm_init_result(e) ==
  IF e.ret = NULL THEN [e EXCEPT !.ret = -1] ELSE [e EXCEPT !.ret = 0]

\* faulty variant: the alignment padding word is left out, so that every
\* block starts WSIZE bytes early
mm_init_unpadded_at(s) ==
  IF s.ret = -1 THEN [s EXCEPT !.heap_listp = -1, !.ret = -1]
  ELSE mm_init_result(extend_heap(mm_init_layout(s, s.ret - WSIZE),
                                  CHUNKSIZE \div WSIZE))

mm_init_unpadded(h) ==
  mm_init_unpadded_at(mem_sbrk(h, 4 * DSIZE + SEGS * DSIZE - WSIZE))

\* mm_init after mem_sbrk(4 * DSIZE + SEGS * DSIZE) gave s; heap_listp has
\* been assigned the result, (void *)-1 included
mm_init_at(s) ==
  IF s.ret = -1 THEN [s EXCEPT !.heap_listp = -1, !.ret = -1]
  ELSE mm_init_result(extend_heap(mm_init_layout(PutH(s, s.ret, 0), s.ret),
                                  CHUNKSIZE \div WSIZE))

mm_init(h) == mm_init_at(mem_sbrk(h, 4 * DSIZE + SEGS * DSIZE))

\* faulty variant: no room for the header and the footer
adjust_no_overhead(size) == MAX(2 * QSIZE, ALIGN(size))

adjust(size) == IF size <= QSIZE THEN 2 * QSIZE ELSE ALIGN(size + QSIZE)

\* "No fit found": extend_heap(extendsize/WSIZE) gave e
malloc_extended(e, asize) ==
  IF e.ret = NULL THEN [e EXCEPT !.ret = NULL]
  ELSE [place(e, e.ret, asize) EXCEPT !.ret = e.ret]

\* find_fit(asize) gave f
malloc_fit(h, asize, f) ==
  IF f.crash # NoFault THEN [h EXCEPT !.ret = NULL, !.crash = f.crash]
  ELSE IF f.ret # NULL THEN [place(h, f.ret, asize) EXCEPT !.ret = f.ret]
  ELSE malloc_extended(extend_heap(h, MAX(asize, CHUNKSIZE) \div WSIZE), asize)

\* malloc after its heap_listp == 0 check
malloc_ready(h, size) ==
  IF size = 0 THEN [h EXCEPT !.ret = NULL]
  ELSE malloc_fit(h, adjust(size), find_fit(h, adjust(size)))

\* mm_init's return value is not looked at
malloc(h, size) ==
  malloc_ready(IF h.heap_listp = 0 THEN mm_init(h) ELSE h, size)

\* free for ptr # 0 with size read, after its heap_listp == 0 check
free_sized(h, ptr, size) == coalesce(PutHdrFtr(h, ptr, size, 0), ptr)

free(h, ptr) ==
  IF ptr = NULL THEN h
  ELSE free_sized(IF h.heap_listp = 0 THEN mm_init(h) ELSE h, ptr,
                  GET_SIZE(h.mem, HDRP(ptr)))

\* memcpy(dst, src, n) within the arena
\* faulty variant: nothing is copied
memcpy_nothing(m, dst, src, n) == m

memcpy(m, dst, src, n) ==
  LET byte(i) == ByteAt(m, src + i) IN WriteBytes(m, dst, n, byte)

\* memset(dst, c, n) within the arena
memset(m, dst, c, n) ==
  LET byte(i) == c IN WriteBytes(m, dst, n, byte)

\* faulty variant: the remainder is marked free but not coalesced or listed
realloc_shrink_unlisted(h, oldptr, rest) ==
  PutHdrFtr(h, NEXT_BLKP(h.mem, oldptr), rest, 0)

\* realloc's shrink: oldptr has its new header and footer; the remainder
\* of rest bytes becomes a free block
realloc_shrink(h, oldptr, rest) ==
  coalesce(PutHdrFtr(h, NEXT_BLKP(h.mem, oldptr), rest, 0),
           NEXT_BLKP(h.mem, oldptr))

\* realloc's fallback once mm_malloc(size) gave n
realloc_copy(n, oldptr, size, oldsize) ==
  IF n.crash # NoFault THEN n
  ELSE IF n.ret = NULL THEN [n EXCEPT !.ret = NULL]
  ELSE [free([n EXCEPT !.mem = memcpy(n.mem, n.ret, oldptr,
                                      IF size < oldsize THEN size ELSE oldsize)],
             oldptr)
          EXCEPT !.ret = n.ret]

\* realloc for asize > oldsize
realloc_grow(h, oldptr, size, asize, oldsize, next_block) ==
  LET m == h.mem
      succ_next == NEXT_FREEBLKP(m, next_block)
      succ_prev == PREV_FREEBLKP(m, next_block)
      nextsize == GET_SIZE(m, HDRP(next_block))
  IN
  IF /\ next_block # NULL
     /\ GET_ALLOC(m, HDRP(next_block)) = 0
     /\ asize <= oldsize + nextsize
  THEN [splice_together(PutHdrFtr(h, oldptr, oldsize + nextsize, 1),
                        succ_prev, succ_next, nextsize)
          EXCEPT !.ret = oldptr]
  ELSE realloc_copy(malloc(h, size), oldptr, size, oldsize)

\* realloc for oldptr # NULL and size # 0, with asize and oldsize computed
realloc_sized(h, oldptr, size, asize, oldsize) ==
  IF asize = oldsize THEN [h EXCEPT !.ret = oldptr]
  ELSE IF asize < oldsize THEN
    IF oldsize - asize >= 2 * QSIZE
    THEN [realloc_shrink(PutHdrFtr(h, oldptr, asize, 1), oldptr,
                         oldsize - asize)
            EXCEPT !.ret = oldptr]
    ELSE [h EXCEPT !.ret = oldptr]
  ELSE realloc_grow(h, oldptr, size, asize, oldsize, NEXT_BLKP(h.mem, oldptr))

realloc(h, oldptr, size) ==
  IF size = 0 THEN [free(h, oldptr) EXCEPT !.ret = NULL]
  ELSE IF oldptr = NULL THEN malloc(h, size)
  ELSE realloc_sized(h, oldptr, size, adjust(size),
                     GET_SIZE(h.mem, HDRP(oldptr)))

\* calloc once malloc(bytes) gave n: memset(newptr, 0, bytes) is done
\* whatever malloc returned; with newptr null and bytes > 0 it writes
\* through the null pointer and faults
calloc_set(n, bytes) ==
  IF n.crash # NoFault THEN n
  ELSE IF n.ret = NULL
  THEN IF bytes > 0 THEN [n EXCEPT !.crash = "calloc: memset(NULL)"] ELSE n
  ELSE [n EXCEPT !.mem = memset(n.mem, n.ret, 0, bytes)]

calloc(h, nmemb, size) == calloc_set(malloc(h, nmemb * size), nmemb * size)

-----------------------------------------------------------------------------
(* The allocator as a state machine: a caller that holds live pointers,    *)
(* allocates, frees, reallocates and writes into what it was given.        *)

Heap == [mem |-> mem, mem_brk |-> mem_brk, heap_listp |-> heap_listp,
         seg_listp |-> seg_listp, last_segp |-> last_segp,
         ret |-> 0, sbrk_failed |-> FALSE, crash |-> NoFault]

Commit(h) ==
  /\ mem' = h.mem
  /\ mem_brk' = h.mem_brk
  /\ heap_listp' = h.heap_listp
  /\ seg_listp' = h.seg_listp
  /\ last_segp' = h.last_segp
  /\ crashed' = h.crash
  /\ ncalls' = IF h.mem = mem THEN ncalls ELSE ncalls + 1
  /\ UNCHANGED <<mem_max, junk, cachevars, proxyvars>>

Call(op, ptr, size, h) ==
  [op |-> op, ptr |-> ptr, size |-> size, ret |-> h.ret,
   sbrk_failed |-> h.sbrk_failed]

NoPat == -1

Without(f, p) == [q \in DOMAIN f \ {p} |-> f[q]]

\* A call has returned h: the globals and the arena are as the call left
\* them, and the caller's view follows the result
Returned(op, ptr, size, h, nowlive) ==
  /\ Commit(h)
  /\ last' = Call(op, ptr, size, h)
  /\ live' = nowlive

Fresh(size, pat, plen) == [req |-> size, pat |-> pat, plen |-> plen]

\* the caller's pointers after malloc(size) or calloc returned h
AfterAlloc(h, size, pat, plen) ==
  IF h.ret # NULL /\ h.crash = NoFault
  THEN (h.ret :> Fresh(size, pat, plen)) @@ live
  ELSE live

\* the caller's pointers after realloc(oldptr, size) returned h
AfterRealloc(h, oldptr, size) ==
  IF h.crash # NoFault THEN live
  ELSE IF size = 0 THEN Without(live, oldptr)
  ELSE IF h.ret = NULL THEN live
  ELSE IF oldptr = NULL THEN (h.ret :> Fresh(size, NoPat, 0)) @@ live
  ELSE (h.ret :> Fresh(size, live[oldptr].pat, MIN(live[oldptr].plen, size)))
       @@ Without(live, oldptr)

MmInit ==
  /\ crashed = NoFault /\ ncalls < MaxCalls
  /\ heap_listp = 0
  /\ Returned("mm_init", NULL, 0, mm_init(Heap), live)

Malloc(size) ==
  /\ crashed = NoFault /\ ncalls < MaxCalls
  /\ Cardinality(DOMAIN live) < MaxLive
  /\ Returned("malloc", NULL, size, malloc(Heap, size),
              AfterAlloc(malloc(Heap, size), size, NoPat, 0))

Free(ptr) ==
  /\ crashed = NoFault /\ ncalls < MaxCalls
  /\ Returned("free", ptr,
              IF ptr = NULL THEN 0 ELSE GET_SIZE(mem, HDRP(ptr)),
              [free(Heap, ptr) EXCEPT !.ret = NULL], Without(live, ptr))

Realloc(oldptr, size) ==
  /\ crashed = NoFault /\ ncalls < MaxCalls
  /\ oldptr = NULL => Cardinality(DOMAIN live) < MaxLive
  /\ Returned("realloc", oldptr, size, realloc(Heap, oldptr, size),
              AfterRealloc(realloc(Heap, oldptr, size), oldptr, size))

Calloc(nmemb, size) ==
  /\ crashed = NoFault /\ ncalls < MaxCalls
  /\ Cardinality(DOMAIN live) < MaxLive
  /\ Returned("calloc", NULL, nmemb * size, calloc(Heap, nmemb, size),
              AfterAlloc(calloc(Heap, nmemb, size), nmemb * size, 0,
                         nmemb * size))

\* the caller fills the bytes [ptr, ptr + req) it asked for with byte c
UserWrite(ptr, c) ==
  /\ crashed = NoFault /\ ncalls < MaxCalls
  /\ live[ptr].pat # c
  /\ mem' = memset(mem, ptr, c, live[ptr].req)
  /\ live' = [live EXCEPT ![ptr] = [req |-> live[ptr].req, pat |-> c,
                                    plen |-> live[ptr].req]]
  /\ last' = [op |-> "write", ptr |-> ptr, size |-> live[ptr].req,
              ret |-> NULL, sbrk_failed |-> FALSE]
  /\ ncalls' = ncalls + 1
  /\ UNCHANGED <<mem_brk, mem_max, junk, heap_listp, seg_listp, last_segp,
                 crashed, cachevars, proxyvars>>

-----------------------------------------------------------------------------
(* What mm_checkheap walks: the blocks of the heap and the class lists.    *)
(* The walks stop at anything outside the arena and after Fuel steps, so   *)
(* that they are defined on a corrupted heap too.                          *)

Initialised == heap_listp # 0 /\ heap_listp # -1

InArena(m, p) == p >= mem_start /\ (p + 7) \div 8 \in DOMAIN m

Fuel == Cardinality(DOMAIN mem) + 1

\* a block pointer whose header and footer are both inside the arena
WholeBlock(m, bp) ==
  /\ InArena(m, HDRP(bp))
  /\ GET_SIZE(m, HDRP(bp)) >= QSIZE
  /\ InArena(m, FTRP(m, bp))

\* mm_checkheap's heap walk: the block pointers from bp up to the first
\* header of size 0
RECURSIVE BlocksFrom(_, _, _)
BlocksFrom(m, bp, fuel) ==
  IF fuel = 0 \/ ~InArena(m, HDRP(bp)) THEN <<>>
  ELSE IF GET_SIZE(m, HDRP(bp)) = 0 THEN <<>>
  ELSE <<bp>> \o BlocksFrom(m, NEXT_BLKP(m, bp), fuel - 1)

\* the blocks between the prologue and the epilogue
HeapBlocks == BlocksFrom(mem, NEXT_BLKP(mem, heap_listp), Fuel)

\* where the heap walk over blocks ends
WalkEnd(blocks) ==
  IF blocks = <<>> THEN NEXT_BLKP(mem, heap_listp)
  ELSE NEXT_BLKP(mem, blocks[Len(blocks)])

\* the walk ends on the epilogue header, the last word of the arena
WalkComplete(blocks) ==
  LET e == HDRP(WalkEnd(blocks)) IN
  /\ e = mem_brk - DSIZE
  /\ InArena(mem, e)
  /\ GET(mem, e) = PACK(0, 1)

Range(seq) == {seq[i] : i \in DOMAIN seq}

IsFree(m, bp) == GET_ALLOC(m, HDRP(bp)) = 0

\* mm_checkheap's list walk: the pointers met following next links from bp;
\* -1 stands for a pointer outside the arena or for a walk that does not end
RECURSIVE ListFrom(_, _, _)
ListFrom(m, bp, fuel) ==
  IF bp = NULL THEN <<>>
  ELSE IF fuel = 0 \/ ~InArena(m, HDRP(bp)) \/ ~InArena(m, PREV_PTR(bp))
  THEN <<-1>>
  ELSE <<bp>> \o ListFrom(m, NEXT_FREEBLKP(m, bp), fuel - 1)

Classes == 0..(SEGS - 1)

ClassList(i) == ListFrom(mem, GET(mem, seg_listp + i * DSIZE), Fuel)

\* the class lists one after the other
AllListed ==
  ClassList(0) \o ClassList(1) \o ClassList(2) \o ClassList(3) \o ClassList(4)

(* C2: after mm_init, every block between the prologue and the epilogue    *)
(* has its header word equal to its footer word, a size that is at least   *)
(* 32 and a multiple of 8, and no two physically adjacent blocks are both  *)
(* free.                                                                   *)
BlocksWellFormed ==
  LET blocks == HeapBlocks IN
  /\ WalkComplete(blocks)
  /\ \A k \in DOMAIN blocks :
       LET bp == blocks[k]
           hdr == GET(mem, HDRP(bp))
       IN
       /\ WholeBlock(mem, bp)
       /\ hdr = GET(mem, FTRP(mem, bp))
       /\ hdr >= 2 * QSIZE
       /\ (hdr - (hdr % 2)) % 8 = 0
       /\ ~(IsFree(mem, bp) /\ IsFree(mem, NEXT_BLKP(mem, bp)))

C2_BlockInvariant == (Initialised /\ crashed = NoFault) => BlocksWellFormed

\* C2's case: a free has just merged the freed block (last.size bytes
\* before the call) with a free neighbour while another block is allocated
C2_Witness ==
  /\ Initialised /\ crashed = NoFault
  /\ last.op = "free" /\ last.ptr # NULL
  /\ DOMAIN live # {}
  /\ LET blocks == HeapBlocks IN
       \E k \in DOMAIN blocks :
         /\ IsFree(mem, blocks[k])
         /\ blocks[k] <= last.ptr
         /\ last.ptr < NEXT_BLKP(mem, blocks[k])
         /\ GET_SIZE(mem, HDRP(blocks[k])) > last.size

(* C3: a block is reachable from a class head iff its allocated bit is 0;  *)
(* every free block appears exactly once, in the list of class             *)
(* bucket(size); no class list has a cycle or leaves the heap; the head's  *)
(* prev is null and x.next.prev = x.                                       *)
ListsWellFormed ==
  LET blocks == Range(HeapBlocks)
      all == AllListed
  IN
  /\ \A i \in Classes :
       LET l == ClassList(i) IN
       \A k \in DOMAIN l :
         /\ l[k] \in blocks
         /\ IsFree(mem, l[k])
         /\ bucket(GET_SIZE(mem, HDRP(l[k]))) = i * DSIZE
         /\ PREV_FREEBLKP(mem, l[k]) = (IF k = 1 THEN NULL ELSE l[k - 1])
  /\ \A bp \in blocks :
       Cardinality({k \in DOMAIN all : all[k] = bp})
         = (IF IsFree(mem, bp) THEN 1 ELSE 0)

C3_FreeListInvariant == (Initialised /\ crashed = NoFault) => ListsWellFormed

\* C3's case: a class list holding two free blocks, next to an allocated one
C3_Witness ==
  /\ Initialised
  /\ \E i \in Classes : Len(ClassList(i)) >= 2
  /\ DOMAIN live # {}

(* C5: the bytes [p, p+n) of every live pointer p lie inside the payload   *)
(* of p's own allocated block, clear of every header, footer, class head   *)
(* and sentinel and of every other live pointer's bytes; after the caller  *)
(* has written those bytes the block, list and alignment invariants hold.  *)
PayloadsInside ==
  LET blocks == Range(HeapBlocks) IN
  /\ \A p \in DOMAIN live :
       /\ p \in blocks
       /\ ~IsFree(mem, p)
       /\ p >= heap_listp + QSIZE
       /\ p + live[p].req <= FTRP(mem, p)
       /\ FTRP(mem, p) <= mem_brk - QSIZE
  /\ \A p, q \in DOMAIN live :
       p < q => FTRP(mem, p) + DSIZE <= HDRP(q)

PointersAligned ==
  \A p \in DOMAIN live :
    p % ALIGNMENT = 0 /\ p > mem_heap_lo /\ p < mem_brk - 1

C5_WritesStayInPayload ==
  (Initialised /\ crashed = NoFault) =>
    /\ PayloadsInside
    /\ last.op = "write" =>
         BlocksWellFormed /\ ListsWellFormed /\ PointersAligned

\* C5's case: the caller has just filled a payload up to its last byte,
\* and the next block is live too
C5_Witness ==
  /\ Initialised /\ last.op = "write"
  /\ last.ptr + last.size = FTRP(mem, last.ptr)
  /\ NEXT_BLKP(mem, last.ptr) \in DOMAIN live
  /\ \A i \in 0..(last.size - 1) : ByteAt(mem, last.ptr + i) \in Patterns

(* C6: every non-null pointer returned by malloc, realloc or calloc is a   *)
(* multiple of 8 and lies strictly between the heap's low and high         *)
(* addresses.                                                              *)
C6_AlignedInHeap ==
  (/\ last.op \in {"malloc", "realloc", "calloc"}
   /\ last.ret # NULL
   /\ crashed = NoFault) =>
    /\ last.ret % ALIGNMENT = 0
    /\ last.ret > mem_heap_lo
    /\ last.ret < mem_brk - 1
    /\ PointersAligned

\* C6's case: a pointer returned from a heap that was extended past its
\* first chunk, while another pointer is live
C6_Witness ==
  /\ last.op \in {"malloc", "realloc", "calloc"}
  /\ last.ret # NULL
  /\ mem_brk > mem_start + 4 * DSIZE + SEGS * DSIZE + CHUNKSIZE + WSIZE
  /\ Cardinality(DOMAIN live) >= 2
  /\ \E p \in DOMAIN live : last.ret > p

(* C7: whenever the extender fails during malloc (the implicit first-use   *)
(* initialisation included) or during realloc's allocate-and-copy          *)
(* fallback, the call returns null without faulting, an initialised heap   *)
(* is left unchanged, and the heap is valid afterwards: heap_listp points  *)
(* into it and the block and list invariants hold.                         *)
C7_ExtenderFailureLeavesHeapValid ==
  [][(/\ last'.op \in {"malloc", "realloc"}
      /\ last'.size > 0
      /\ last'.sbrk_failed) =>
       /\ crashed' = NoFault
       /\ last'.ret = NULL
       /\ heap_listp # 0 => (mem' = mem /\ mem_brk' = mem_brk /\ live' = live)
       /\ Initialised'
       /\ BlocksWellFormed'
       /\ ListsWellFormed']_vars

(* C8: calloc(k, n) returns null or a pointer to k*n zero bytes, and when  *)
(* the underlying malloc fails it returns null without writing memory.     *)
C8_CallocZeroOrNull ==
  last.op = "calloc" =>
    /\ crashed # "calloc: memset(NULL)"
    /\ (crashed = NoFault /\ last.ret # NULL) =>
         \A i \in 0..(last.size - 1) : ByteAt(mem, last.ret + i) = 0

(* C9: realloc(p, m) of a live block whose first n bytes hold a pattern,   *)
(* with m > 0 and a non-null result q, leaves the pattern in the first     *)
(* min(n, m) bytes at q.                                                   *)
PatternKept(p) ==
  live[p].pat # NoPat =>
    \A i \in 0..(live[p].plen - 1) : ByteAt(mem, p + i) = live[p].pat

C9_ReallocKeepsContent ==
  (/\ last.op = "realloc" /\ last.ptr # NULL /\ last.size > 0
   /\ last.ret # NULL /\ crashed = NoFault) =>
    /\ last.ret \in DOMAIN live
    /\ live[last.ret].pat # NoPat => live[last.ret].plen > 0
    /\ PatternKept(last.ret)

\* C9's case: realloc moved a filled block (allocate, copy, free) and the
\* old block's bytes have been overwritten by free-list links
C9_Witness ==
  /\ last.op = "realloc" /\ last.ptr # NULL /\ last.size > 0
  /\ last.ret # NULL /\ last.ret # last.ptr
  /\ live[last.ret].pat \in Patterns
  /\ live[last.ret].plen > DSIZE
  /\ ByteAt(mem, last.ptr) \notin Patterns

\* the sizes of the blocks of a walk, added up
RECURSIVE SumBlockSizes(_, _)
SumBlockSizes(blocks, n) ==
  IF n = 0 THEN 0
  ELSE GET_SIZE(mem, HDRP(blocks[n])) + SumBlockSizes(blocks, n - 1)

\* the bytes mm_init takes for the padding word, the class heads, the
\* prologue and the first epilogue header; extend_heap's bytes follow them
WorkStart == mem_start + 4 * DSIZE + SEGS * DSIZE

(* C18: after mm_init the prologue block and the size-0 epilogue header    *)
(* are present and allocated, the epilogue header is the last word of the  *)
(* heap, stepping from the prologue by block sizes visits whole blocks     *)
(* only and lands on the epilogue, and the block sizes add up to the bytes *)
(* extend_heap obtained.                                                   *)
C18_SentinelsAndTiling ==
  (Initialised /\ crashed = NoFault) =>
    LET blocks == HeapBlocks IN
    /\ heap_listp = WorkStart - QSIZE
    /\ GET(mem, HDRP(heap_listp)) = PACK(QSIZE, 1)
    /\ GET(mem, FTRP(mem, heap_listp)) = PACK(QSIZE, 1)
    /\ WalkComplete(blocks)
    /\ \A k \in DOMAIN blocks : WholeBlock(mem, blocks[k])
    /\ \A k \in DOMAIN blocks :
         k > 1 => blocks[k] = blocks[k - 1] + GET_SIZE(mem, HDRP(blocks[k - 1]))
    /\ SumBlockSizes(blocks, Len(blocks)) = mem_brk - WorkStart

\* C18's case: the heap was extended a second time and holds allocated and
\* free blocks
C18_Witness ==
  /\ Initialised /\ crashed = NoFault
  /\ mem_brk > WorkStart + CHUNKSIZE + WSIZE
  /\ LET blocks == HeapBlocks IN
       /\ Len(blocks) >= 3
       /\ \E k \in DOMAIN blocks : IsFree(mem, blocks[k])
       /\ \E k \in DOMAIN blocks : ~IsFree(mem, blocks[k])

\* the list of class i in arena m
ClassListIn(m, i) == ListFrom(m, GET(m, seg_listp + i * DSIZE), Fuel)

\* a sequence without the members of a set, the others in their order
Except(seq, gone) == SelectSeq(seq, LAMBDA x : x \notin gone)

\* what free(p) must make of arena m: one free block at b of msize bytes at
\* the head of its class, the merged neighbours `gone` from their lists
MergedAt(m, m2, b, msize, gone) ==
  /\ GET(m2, HDRP(b)) = PACK(msize, 0)
  /\ FTRP(m2, b) = b + msize - QSIZE
  /\ GET(m2, FTRP(m2, b)) = PACK(msize, 0)
  /\ GET_ALLOC(m2, HDRP(b + msize)) = 1
  /\ GET_ALLOC(m2, b - QSIZE) = 1
  /\ \A i \in Classes :
       ClassListIn(m2, i) =
         IF i * DSIZE = bucket(msize)
         THEN <<b>> \o Except(ClassListIn(m, i), gone)
         ELSE Except(ClassListIn(m, i), gone)

\* the free physical neighbours of block p in arena m
LeftFree(m, p) == GET_ALLOC(m, p - QSIZE) = 0
RightFree(m, p) == GET_ALLOC(m, HDRP(NEXT_BLKP(m, p))) = 0
LeftSize(m, p) == IF LeftFree(m, p) THEN GET_SIZE(m, p - QSIZE) ELSE 0
RightSize(m, p) ==
  IF RightFree(m, p) THEN GET_SIZE(m, HDRP(NEXT_BLKP(m, p))) ELSE 0

FreeMerges(p, h2) ==
  /\ h2.crash = NoFault
  /\ MergedAt(mem, h2.mem, p - LeftSize(mem, p),
              GET_SIZE(mem, HDRP(p)) + LeftSize(mem, p) + RightSize(mem, p),
              (IF LeftFree(mem, p) THEN {p - LeftSize(mem, p)} ELSE {})
                \cup (IF RightFree(mem, p) THEN {NEXT_BLKP(mem, p)} ELSE {}))

(* C19: free(p) merges the block with each physically adjacent free        *)
(* neighbour, takes each merged neighbour off its class list, and leaves   *)
(* one free block, starting at the left neighbour when that was free and   *)
(* of the summed size, at the head of the list of class bucket(size), the  *)
(* other members of every list keeping their order.  Stated of every       *)
(* block that is live in a reachable heap.                                 *)
C19_FreeCoalesces ==
  (Initialised /\ crashed = NoFault) =>
    \A p \in DOMAIN live : FreeMerges(p, free(Heap, p))

\* C19's case: a live block with a free block on either side, and one with
\* allocated blocks on either side
C19_Witness ==
  /\ Initialised /\ crashed = NoFault
  /\ \E p \in DOMAIN live : LeftFree(mem, p) /\ RightFree(mem, p)
  /\ \E p \in DOMAIN live : ~LeftFree(mem, p) /\ ~RightFree(mem, p)

\* request sizes malloc is applied to in every reachable heap: the two
\* around QSIZE and the multiples of 8 up to past the largest block
PlaceSizes == {1, 16, 17} \cup {8 * k : k \in 3..34}

\* the free block malloc places asize bytes into: the one find_fit gives or,
\* when there is none, the one extend_heap gives; h is the heap around it
Chosen(asize) ==
  IF find_fit(Heap, asize).ret # NULL
  THEN [h |-> Heap, bp |-> find_fit(Heap, asize).ret]
  ELSE [h |-> extend_heap(Heap, MAX(asize, CHUNKSIZE) \div WSIZE),
        bp |-> extend_heap(Heap, MAX(asize, CHUNKSIZE) \div WSIZE).ret]

\* arena m2 holds at bp a block of the given size and allocated bit
BlockAt(m2, bp, size, alloc) ==
  /\ GET(m2, HDRP(bp)) = PACK(size, alloc)
  /\ GET(m2, bp + size - QSIZE) = PACK(size, alloc)

\* h2 is the heap c.h with asize bytes placed into its free block c.bp
PlacedInto(c, asize, csize, h2) ==
  /\ h2.crash = NoFault
  /\ h2.ret = c.bp
  /\ BlockAt(h2.mem, c.bp, IF csize - asize >= 32 THEN asize ELSE csize, 1)
  /\ csize - asize >= 32 => BlockAt(h2.mem, c.bp + asize, csize - asize, 0)
  /\ GET_SIZE(h2.mem, HDRP(c.bp)) >= asize
  /\ GET_SIZE(h2.mem, HDRP(c.bp)) < asize + 32
  /\ \A i \in Classes :
       ClassListIn(h2.mem, i) =
         IF csize - asize >= 32 /\ i * DSIZE = bucket(csize - asize)
         THEN <<c.bp + asize>> \o Except(ClassListIn(c.h.mem, i), {c.bp})
         ELSE Except(ClassListIn(c.h.mem, i), {c.bp})

\* malloc(n) made h2 of the current heap as the placement rule says
Placed(n, asize, h2) ==
  IF Chosen(asize).bp = NULL THEN h2.ret = NULL
  ELSE PlacedInto(Chosen(asize), asize,
                  GET_SIZE(Chosen(asize).h.mem, HDRP(Chosen(asize).bp)), h2)

(* C21: malloc(n), n > 0, places asize = max(32, align8(n + 16)) bytes     *)
(* into the chosen free block of csize bytes and takes that block off its  *)
(* class list: with csize - asize >= 32 the low asize bytes are the        *)
(* allocated block and the remaining csize - asize bytes a free block at   *)
(* the head of class bucket(csize - asize); otherwise the whole block is   *)
(* allocated.  The allocated size lies in [asize, asize + 32).  Stated of  *)
(* every size of PlaceSizes in every reachable heap.                       *)
C21_PlaceSplitsOrTakesWhole ==
  (Initialised /\ crashed = NoFault) =>
    \A n \in PlaceSizes : Placed(n, MAX(32, ALIGN(n + 16)), malloc(Heap, n))

\* C21's case: a heap with several free blocks in which one request is
\* placed whole into a larger block and another splits its block
C21_Witness ==
  /\ Initialised /\ crashed = NoFault
  /\ Cardinality(UNION {Range(ClassList(i)) : i \in Classes}) >= 2
  /\ \E n \in PlaceSizes :
       /\ find_fit(Heap, adjust(n)).ret # NULL
       /\ GET_SIZE(mem, HDRP(find_fit(Heap, adjust(n)).ret)) - adjust(n)
            \in 1..31
  /\ \E n \in PlaceSizes :
       /\ find_fit(Heap, adjust(n)).ret # NULL
       /\ GET_SIZE(mem, HDRP(find_fit(Heap, adjust(n)).ret)) - adjust(n) >= 32

\* sizes realloc is applied to for every live block of every reachable heap
ReallocSizes == {1, 24, 88, 104, 208, 256, 272}

\* which of realloc's paths a live block p of the current heap takes for an
\* adjusted size, read from the boundary tags
ReallocCase(p, asize) ==
  IF asize = GET_SIZE(mem, HDRP(p)) THEN "same"
  ELSE IF asize < GET_SIZE(mem, HDRP(p)) THEN "shrink"
  ELSE IF RightFree(mem, p)
          /\ GET_SIZE(mem, HDRP(p)) + RightSize(mem, p) >= asize THEN "absorb"
  ELSE "move"

\* the class lists of arena m2 are those of the current arena without the
\* blocks `gone`
ListsExcept(m2, gone) ==
  \A i \in Classes : ClassListIn(m2, i) = Except(ClassListIn(mem, i), gone)

\* r is what the three in-place paths make of block p of oldsize bytes
InPlace(p, asize, oldsize, r) ==
  /\ r.crash = NoFault
  /\ r.ret = p
  /\ ReallocCase(p, asize) = "same" => r.mem = mem
  /\ (ReallocCase(p, asize) = "shrink" /\ oldsize - asize < 32) => r.mem = mem
  /\ (ReallocCase(p, asize) = "shrink" /\ oldsize - asize >= 32) =>
       /\ BlockAt(r.mem, p, asize, 1)
       /\ MergedAt(mem, r.mem, p + asize,
                   oldsize - asize + RightSize(mem, p),
                   IF RightFree(mem, p) THEN {NEXT_BLKP(mem, p)} ELSE {})
  /\ ReallocCase(p, asize) = "absorb" =>
       /\ BlockAt(r.mem, p, oldsize + RightSize(mem, p), 1)
       /\ ListsExcept(r.mem, {NEXT_BLKP(mem, p)})

\* r returns a newly allocated block, the one malloc(n) gives, and block p
\* has been freed
Moved(p, n, r) ==
  /\ r.crash = NoFault
  /\ r.ret # NULL /\ r.ret # p
  /\ r.ret = malloc(Heap, n).ret
  /\ GET_ALLOC(r.mem, HDRP(r.ret)) = 1
  /\ GET_ALLOC(r.mem, HDRP(p)) = 0

\* malloc(n) failed: r returns null and the heap is as it was
MoveFailed(p, n, r) ==
  /\ r.crash = NoFault
  /\ malloc(Heap, n).ret = NULL
  /\ r.ret = NULL
  /\ r.mem = mem /\ r.mem_brk = mem_brk
  /\ GET_ALLOC(r.mem, HDRP(p)) = 1

(* C22: realloc(p, n) with p live and n > 0 returns p, moving no data, in  *)
(* exactly three cases: asize == oldsize (heap unchanged); asize < oldsize *)
(* (a free remainder split off and coalesced iff oldsize - asize >= 32,    *)
(* else the block kept whole); asize > oldsize with the right neighbour    *)
(* free and oldsize + nextsize >= asize (the neighbour taken off its list  *)
(* and absorbed whole).  In every other case it returns a newly allocated  *)
(* block and p's block is freed.                                           *)
C22_ReallocMovesOtherwise ==
  (Initialised /\ crashed = NoFault) =>
    \A p \in DOMAIN live : \A n \in ReallocSizes :
      IF ReallocCase(p, MAX(32, ALIGN(n + 16))) # "move"
      THEN InPlace(p, MAX(32, ALIGN(n + 16)), GET_SIZE(mem, HDRP(p)),
                   realloc(Heap, p, n))
      ELSE Moved(p, n, realloc(Heap, p, n))

(* C22, amended: as above, but in every other case realloc calls           *)
(* malloc(n); when that gives a block it is returned and p's block is      *)
(* freed, and when it gives null realloc returns null and leaves the heap, *)
(* p's block included, as it was.                                          *)
C22_ReallocInPlaceOrMalloc ==
  (Initialised /\ crashed = NoFault) =>
    \A p \in DOMAIN live : \A n \in ReallocSizes :
      IF ReallocCase(p, MAX(32, ALIGN(n + 16))) # "move"
      THEN InPlace(p, MAX(32, ALIGN(n + 16)), GET_SIZE(mem, HDRP(p)),
                   realloc(Heap, p, n))
      ELSE \/ Moved(p, n, realloc(Heap, p, n))
           \/ MoveFailed(p, n, realloc(Heap, p, n))

\* the paths live block p takes over the sizes tried
CasesOf(p) ==
  {<<ReallocCase(p, MAX(32, ALIGN(n + 16))),
     GET_SIZE(mem, HDRP(p)) - MAX(32, ALIGN(n + 16)) >= 32,
     realloc(Heap, p, n).ret = NULL>> : n \in ReallocSizes}

\* C22's case: a heap whose live blocks take, over the sizes tried, every
\* path: unchanged, shrunk with and without a split, grown into the free
\* right neighbour, moved, and left alone because malloc failed
C22_Witness ==
  /\ Initialised /\ crashed = NoFault
  /\ {<<"same", FALSE, FALSE>>, <<"shrink", TRUE, FALSE>>,
      <<"shrink", FALSE, FALSE>>, <<"absorb", FALSE, FALSE>>,
      <<"move", FALSE, FALSE>>, <<"move", FALSE, TRUE>>}
       \subseteq UNION {CasesOf(p) : p \in DOMAIN live}

\* request sizes whose adjusted size is the size of a block
SizesFor(size) == {n \in {1, size - 23, size - 16} : n > 0 /\ adjust(n) = size}

(* C23: if free(p) finds both physical neighbours of p's block allocated,  *)
(* a malloc that follows at once and whose adjusted size is the size of    *)
(* p's block returns p, whatever other free blocks the class lists hold.   *)
(* Stated of every live block of every reachable heap.                     *)
C23_FreedBlockReused ==
  (Initialised /\ crashed = NoFault) =>
    \A p \in DOMAIN live :
      (~LeftFree(mem, p) /\ ~RightFree(mem, p)) =>
        \A n \in SizesFor(GET_SIZE(mem, HDRP(p))) :
          malloc(free(Heap, p), n).ret = p

\* C23's case: a live block between two allocated ones while the list of
\* its class already holds a free block that would fit as well
C23_Witness ==
  /\ Initialised /\ crashed = NoFault
  /\ \E p \in DOMAIN live :
       /\ ~LeftFree(mem, p) /\ ~RightFree(mem, p)
       /\ NEXT_BLKP(mem, p) \in DOMAIN live
       /\ SizesFor(GET_SIZE(mem, HDRP(p))) # {}
       /\ \E b \in Range(ClassListIn(mem, bucket(GET_SIZE(mem, HDRP(p)))
                                            \div DSIZE)) :
            GET_SIZE(mem, HDRP(b)) >= GET_SIZE(mem, HDRP(p))

-----------------------------------------------------------------------------
(* cache.c.  An object struct lives at an address in 1..MaxObjects; the    *)
(* operators below work on a record k = [C, objects, freed, fault, ret,    *)
(* evicted] holding the cache struct, the allocated object structs, the    *)
(* freed addresses, the fault (if any), the call's result and the number   *)
(* of objects the call removed.                                            *)

MaxObjects == 13

NoTask == 0

cache_init(ms) == [bytes_left |-> ms, MRA |-> NULL, LRA |-> NULL]

\* Malloc(sizeof(object)): an address that is neither in use nor was freed
\* (a freed address is never handed out again, so that a stale pointer
\* stays recognisable)
NewAddr(k) ==
  CHOOSE a \in 1..MaxObjects :
    /\ a \notin DOMAIN k.objects \cup k.freed
    /\ \A b \in 1..(a - 1) : b \in DOMAIN k.objects \cup k.freed

new_object(k, req, resp, obj_size) ==
  LET obj == NewAddr(k) IN
  [k EXCEPT !.objects = (obj :> [request |-> req, response |-> resp,
                                 size |-> obj_size, prev |-> NULL,
                                 next |-> NULL]) @@ k.objects,
            !.ret = obj]

cache_remove(k, obj) ==
  IF obj = NULL
  THEN [k EXCEPT !.fault = "cache_remove: obj->size with obj == NULL"]
  ELSE
    LET o == k.objects[obj]
        C1 == [k.C EXCEPT !.bytes_left = k.C.bytes_left + o.size]
        k1 ==
          IF o.prev = NULL /\ o.next = NULL THEN
            [k EXCEPT !.C = [C1 EXCEPT !.MRA = NULL, !.LRA = NULL]]
          ELSE IF o.prev = NULL THEN
            [k EXCEPT !.C = [C1 EXCEPT !.MRA = o.next],
                      !.objects = [k.objects EXCEPT ![o.next].prev = NULL]]
          ELSE IF o.next = NULL THEN
            [k EXCEPT !.C = [C1 EXCEPT !.LRA = o.prev],
                      !.objects = [k.objects EXCEPT ![o.prev].next = NULL]]
          ELSE
            [k EXCEPT !.C = C1,
                      !.objects = [k.objects EXCEPT ![o.prev].next = o.next,
                                                    ![o.next].prev = o.prev]]
    IN [k1 EXCEPT !.objects = [a \in DOMAIN k1.objects \ {obj} |-> k1.objects[a]],
                  !.freed = k1.freed \cup {obj},
                  !.evicted = k1.evicted + 1]

\* faulty variant: room is made by removing the MRA object
RECURSIVE evict_from_head(_, _)
evict_from_head(k, req_size) ==
  IF k.fault # NoFault THEN k
  ELSE IF k.C.bytes_left < req_size
  THEN evict_from_head(cache_remove(k, k.C.MRA), req_size)
  ELSE k

RECURSIVE evict(_, _)
evict(k, req_size) ==
  IF k.fault # NoFault THEN k
  ELSE IF k.C.bytes_left < req_size
  THEN evict(cache_remove(k, k.C.LRA), req_size)
  ELSE k

\* faulty variant: bytes_left is not charged for the new object
cache_insert_uncharged(k, obj) ==
  LET e == evict(k, k.objects[obj].size) IN
  IF e.fault # NoFault THEN e
  ELSE IF e.C.MRA = NULL
  THEN [e EXCEPT !.C = [e.C EXCEPT !.MRA = obj, !.LRA = obj]]
  ELSE
    LET temp == e.C.MRA IN
    [e EXCEPT !.C = [e.C EXCEPT !.MRA = obj],
              !.objects = [e.objects EXCEPT ![obj].prev = NULL,
                                            ![obj].next = temp,
                                            ![temp].prev = obj]]

\* faulty variant: the old MRA object's prev is not pointed at the new one
cache_insert_no_backlink(k, obj) ==
  LET e == evict(k, k.objects[obj].size) IN
  IF e.fault # NoFault THEN e
  ELSE
    LET C1 == [e.C EXCEPT !.bytes_left = e.C.bytes_left - e.objects[obj].size] IN
    IF C1.MRA = NULL
    THEN [e EXCEPT !.C = [C1 EXCEPT !.MRA = obj, !.LRA = obj]]
    ELSE
      LET temp == C1.MRA IN
      [e EXCEPT !.C = [C1 EXCEPT !.MRA = obj],
                !.objects = [e.objects EXCEPT ![obj].prev = NULL,
                                              ![obj].next = temp]]

cache_insert(k, obj) ==
  LET e == evict(k, k.objects[obj].size) IN
  IF e.fault # NoFault THEN e
  ELSE
    LET C1 == [e.C EXCEPT !.bytes_left = e.C.bytes_left - e.objects[obj].size] IN
    IF C1.MRA = NULL
    THEN [e EXCEPT !.C = [C1 EXCEPT !.MRA = obj, !.LRA = obj]]
    ELSE
      LET temp == C1.MRA IN
      [e EXCEPT !.C = [C1 EXCEPT !.MRA = obj],
                !.objects = [e.objects EXCEPT ![obj].prev = NULL,
                                              ![obj].next = temp,
                                              ![temp].prev = obj]]

\* faulty variant: the scan starts at LRA and follows prev
RECURSIVE find_scan_back(_, _, _)
find_scan_back(k, scan, req) ==
  IF scan = NULL THEN NULL
  ELSE IF k.objects[scan].request = req THEN scan
  ELSE find_scan_back(k, k.objects[scan].prev, req)

find_request_oldest(k, req) == find_scan_back(k, k.C.LRA, req)

RECURSIVE find_scan(_, _, _)
find_scan(k, scan, req) ==
  IF scan = NULL THEN NULL
  ELSE IF k.objects[scan].request = req THEN scan
  ELSE find_scan(k, k.objects[scan].next, req)

find_request(k, req) == find_scan(k, k.C.MRA, req)

-----------------------------------------------------------------------------
(* The cache driven directly through its interface *)

CacheCap == 10
ObjSizes == {0, CacheCap - 4, CacheCap + 1}
Requests == {1, 2}

\* the response bytes the upstream serves for a request line
Response(req) == <<"body", req>>

K == [C |-> C, objects |-> objects, freed |-> freed, fault |-> NoFault,
      ret |-> NULL, evicted |-> 0]

CommitCache(k) ==
  /\ C' = k.C
  /\ objects' = k.objects
  /\ freed' = k.freed
  /\ cache_fault' = k.fault
  /\ UNCHANGED max_size

\* objects cache_insert has put in the list and that were not removed since
Resident ==
  {inserted[i].obj : i \in {j \in DOMAIN inserted : inserted[j].linked}} \ freed

\* objects built by new_object and not inserted yet
Detached == DOMAIN objects \ Resident

\* which of cache_remove's four cases an object falls in
Position(obj) ==
  IF objects[obj].prev = NULL /\ objects[obj].next = NULL THEN "only"
  ELSE IF objects[obj].prev = NULL THEN "head"
  ELSE IF objects[obj].next = NULL THEN "tail"
  ELSE "middle"

NewObject(req, obj_size) ==
  /\ cache_fault = NoFault
  /\ Detached = {}
  /\ LET k == new_object(K, req, Response(req), obj_size) IN
       /\ CommitCache(k)
       /\ clast' = [op |-> "new_object", obj |-> k.ret, ret |-> k.ret,
                    evicted |-> 0, where |-> "none", req |-> req]
  /\ UNCHANGED <<inserted, mmvars, proxyvars>>

CacheInsert(obj) ==
  /\ cache_fault = NoFault
  /\ LET k == cache_insert(K, obj) IN
       /\ CommitCache(k)
       /\ clast' = [op |-> "cache_insert", obj |-> obj, ret |-> NULL,
                    evicted |-> k.evicted, where |-> "none",
                    req |-> objects[obj].request]
  /\ inserted' = Append(inserted, [obj |-> obj, size |-> objects[obj].size,
                                   req |-> objects[obj].request,
                                   linked |-> cache_fault' = NoFault,
                                   by |-> NoTask])
  /\ UNCHANGED <<mmvars, proxyvars>>

CacheRemove(obj) ==
  /\ cache_fault = NoFault
  /\ LET k == cache_remove(K, obj) IN
       /\ CommitCache(k)
       /\ clast' = [op |-> "cache_remove", obj |-> obj, ret |-> NULL,
                    evicted |-> 0, where |-> Position(obj),
                    req |-> objects[obj].request]
  /\ UNCHANGED <<inserted, mmvars, proxyvars>>

FindRequest(req) ==
  /\ cache_fault = NoFault
  /\ clast' = [op |-> "find_request", obj |-> NULL,
               ret |-> find_request(K, req), evicted |-> 0,
               where |-> "none", req |-> req]
  /\ UNCHANGED <<C, max_size, objects, freed, inserted, cache_fault,
                 mmvars, proxyvars>>

-----------------------------------------------------------------------------
(* Inspection of the cache's list *)

\* the addresses met following next from x; -1 marks a pointer to something
\* that is no allocated object, or a walk that did not end within fuel steps
RECURSIVE NextWalk(_, _)
NextWalk(x, fuel) ==
  IF x = NULL THEN <<>>
  ELSE IF fuel = 0 \/ x \notin DOMAIN objects THEN <<-1>>
  ELSE <<x>> \o NextWalk(objects[x].next, fuel - 1)

MRAList == NextWalk(C.MRA, Cardinality(DOMAIN objects))

RECURSIVE SumSizes(_)
SumSizes(S) ==
  IF S = {} THEN 0
  ELSE LET x == CHOOSE y \in S : TRUE
       IN objects[x].size + SumSizes(S \ {x})

(* C4: after cache_init(max_size) and any sequence of cache_insert and     *)
(* cache_remove calls in which every inserted object has size <= max_size, *)
(* the sizes of the resident objects plus bytes_left add up to max_size.   *)
C4_SizeAccounting ==
  (\A i \in DOMAIN inserted : inserted[i].size <= max_size) =>
    SumSizes(Resident) + C.bytes_left = max_size

\* C4's case: an insert into a full cache has evicted to make room, and at
\* least two objects are resident
C4_Witness ==
  /\ clast.op = "cache_insert" /\ clast.evicted >= 1
  /\ \A i \in DOMAIN inserted : inserted[i].size <= max_size
  /\ Cardinality(Resident) >= 2
  /\ C.bytes_left < max_size

(* C10: MRA is null iff LRA is null iff no object is resident; following   *)
(* next from MRA visits every resident object exactly once and ends at     *)
(* LRA; MRA.prev and LRA.next are null; x.next.prev == x for every         *)
(* resident x with a successor.                                            *)
C10_ListWellFormed ==
  LET list == MRAList IN
  /\ (C.MRA = NULL) <=> (C.LRA = NULL)
  /\ (C.MRA = NULL) <=> (Resident = {})
  /\ \A i \in DOMAIN list : list[i] # -1
  /\ \A i, j \in DOMAIN list : i # j => list[i] # list[j]
  /\ {list[i] : i \in DOMAIN list} = Resident
  /\ list # <<>> => list[Len(list)] = C.LRA
  /\ C.MRA # NULL => objects[C.MRA].prev = NULL /\ objects[C.LRA].next = NULL
  /\ \A x \in Resident :
       objects[x].next # NULL => objects[objects[x].next].prev = x

\* C10's case: an object has just been removed from the middle of the list
C10_Witness ==
  /\ clast.op = "cache_remove" /\ clast.where = "middle"
  /\ Len(MRAList) >= 2
  /\ objects[C.MRA].next = C.LRA

\* the objects cache_insert has linked, oldest first
LinkedOrder ==
  LET idx == {j \in DOMAIN inserted : inserted[j].linked}
      Nth[n \in 0..Len(inserted)] ==
        IF n = 0 THEN <<>>
        ELSE IF n \in idx THEN Append(Nth[n - 1], inserted[n].obj)
        ELSE Nth[n - 1]
  IN Nth[Len(inserted)]

(* C11: with inserts and finds only, objects leave the cache in insertion  *)
(* order: the list from MRA to LRA holds the k most recently inserted      *)
(* objects for some k, newest first.                                       *)
C11_InsertionOrder ==
  LET list == MRAList
      ins == LinkedOrder
  IN /\ Len(list) <= Len(ins)
     /\ \A i \in DOMAIN list : list[i] = ins[Len(ins) - i + 1]

\* C11's case: an insert has evicted, and a later find hit an object that
\* is not the MRA one, which stayed where it was
C11_Witness ==
  /\ clast.op = "find_request"
  /\ clast.ret # NULL /\ clast.ret # C.MRA
  /\ freed # {}
  /\ Len(MRAList) >= 2

(* C12: immediately after cache_insert(C, o) with o.size <= max_size,      *)
(* find_request(C, o.request) returns o itself, also when an older         *)
(* resident object carries the same request.                               *)
C12_FindAfterInsert ==
  (/\ clast.op = "cache_insert"
   /\ clast.obj \in DOMAIN objects
   /\ objects[clast.obj].size <= max_size) =>
     /\ cache_fault = NoFault
     /\ find_request(K, clast.req) = clast.obj

\* C12's case: the object just inserted shares its request with an older
\* resident object
C12_Witness ==
  /\ clast.op = "cache_insert"
  /\ clast.obj \in Resident
  /\ \E x \in Resident \ {clast.obj} : objects[x].request = clast.req

(* C14: cache_insert of an object larger than the cache's capacity drains  *)
(* the cache, terminates, and completes with the object resident and       *)
(* bytes_left negative.                                                    *)
C14_OversizeInsertCompletes ==
  (/\ clast.op = "cache_insert"
   /\ inserted[Len(inserted)].size > max_size) =>
     /\ cache_fault = NoFault
     /\ MRAList = <<clast.obj>>
     /\ C.bytes_left < 0

-----------------------------------------------------------------------------
(* proxy.c: worker tasks.  main accepts a connection and starts a task     *)
(* running new_request; a task's steps are separated wherever it takes or  *)
(* releases rwlock.  Request lines are numbered in the order in which they *)
(* are first asked for.                                                    *)

MAX_CACHE_SIZE == 1049000
MAX_OBJECT_SIZE == 102400

NTasks == 2
MaxKeys == 12

\* objects the tasks may build in one run
MaxFetched == 3

Tasks == 1..NTasks
RespSizes == {MAX_OBJECT_SIZE, MAX_OBJECT_SIZE + 1}

Goto(t, where) == pc' = [pc EXCEPT ![t] = where]

\* the largest request-line number inserted so far
LastKey ==
  IF inserted = <<>> THEN 0
  ELSE CHOOSE n \in {inserted[i].req : i \in DOMAIN inserted} :
         \A i \in DOMAIN inserted : inserted[i].req <= n

\* a task's locals before its connection is accepted
NoSent == [obj |-> NULL, state |-> "nothing", hold |-> 0]

\* how many objects the tasks have built so far
Fetched ==
  Cardinality(DOMAIN objects \cup freed)
    - Cardinality({i \in DOMAIN inserted : inserted[i].by = NoTask})

\* what reading the fields of a freed object can give
StaleOutcomes == {"stale bytes", "other bytes", "fault"}

\* return NULL: the task ends and its locals die
Return(t) ==
  /\ request' = [request EXCEPT ![t] = 0]
  /\ retrieve' = [retrieve EXCEPT ![t] = NULL]
  /\ found' = [found EXCEPT ![t] = 0]
  /\ found_hold' = [found_hold EXCEPT ![t] = 0]
  /\ holds' = [holds EXCEPT ![t] = 0]
  /\ total_size' = [total_size EXCEPT ![t] = 0]
  /\ new_obj' = [new_obj EXCEPT ![t] = NULL]
  /\ sent' = [sent EXCEPT ![t] = NoSent]
  /\ Goto(t, "idle")

\* main accepts a connection and starts the task; new_request reads the
\* request line `key`, takes the read lock and looks the line up,
\* proxy.c:85-106
Lookup(t, key) ==
  /\ cache_fault = NoFault
  /\ pc[t] = "idle"
  /\ UNCHANGED reqvars
  /\ rwlock.writer = NoTask
  /\ rwlock' = [rwlock EXCEPT !.readers = @ \cup {t}]
  /\ request' = [request EXCEPT ![t] = key]
  /\ holds' = [holds EXCEPT ![t] = 1]
  /\ found_hold' = [found_hold EXCEPT ![t] = 1]
  /\ LET r == find_request(K, key) IN
       /\ retrieve' = [retrieve EXCEPT ![t] = r]
       /\ found' = [found EXCEPT ![t] = IF r # NULL THEN 1 ELSE 0]
  /\ Goto(t, "unlock")
  /\ UNCHANGED <<total_size, new_obj, sent, mmvars, cachevars>>

\* pthread_rwlock_unlock(&rwlock); if(found), proxy.c:107-108
Unlock(t) ==
  /\ cache_fault = NoFault
  /\ pc[t] = "unlock"
  /\ UNCHANGED reqvars
  /\ rwlock' = [rwlock EXCEPT !.readers = @ \ {t}]
  /\ Goto(t, IF found[t] = 1 THEN "rdlock2" ELSE "fetch")
  /\ UNCHANGED <<request, retrieve, found, found_hold, holds, total_size,
                 new_obj, sent, mmvars, cachevars>>

\* pthread_rwlock_rdlock(&rwlock);
\* rio_writen(connfd, retrieve->response, retrieve->size), proxy.c:109-110
SendCached(t) ==
  /\ cache_fault = NoFault
  /\ pc[t] = "rdlock2"
  /\ UNCHANGED reqvars
  /\ rwlock.writer = NoTask
  /\ rwlock' = [rwlock EXCEPT !.readers = @ \cup {t}]
  /\ holds' = [holds EXCEPT ![t] = @ + 1]
  /\ IF retrieve[t] \in DOMAIN objects
     THEN /\ sent' = [sent EXCEPT ![t] = [obj |-> retrieve[t],
                                          state |-> "object bytes",
                                          hold |-> holds'[t]]]
          /\ UNCHANGED cache_fault
     ELSE \E outcome \in StaleOutcomes :
            /\ sent' = [sent EXCEPT ![t] = [obj |-> retrieve[t],
                                            state |-> outcome,
                                            hold |-> holds'[t]]]
            /\ cache_fault' = IF outcome = "fault"
                              THEN "new_request: read of a freed object"
                              ELSE NoFault
  /\ Goto(t, "unlock2")
  /\ UNCHANGED <<request, retrieve, found, found_hold, total_size, new_obj,
                 mmvars, C, max_size, objects, freed, inserted, clast>>

\* pthread_rwlock_unlock(&rwlock); close(connfd); return, proxy.c:111-115
Unlock2(t) ==
  /\ cache_fault = NoFault
  /\ pc[t] = "unlock2"
  /\ UNCHANGED reqvars
  /\ rwlock' = [rwlock EXCEPT !.readers = @ \ {t}]
  /\ Return(t)
  /\ UNCHANGED <<mmvars, cachevars>>

\* faulty variant: the response's size is not held against MAX_OBJECT_SIZE
Cacheable_any_size(connected, size, reset) == connected /\ ~reset

\* the response is added to the cache: the upstream was reached, the scratch
\* buffer stayed valid (flag) and errno is not ECONNRESET, proxy.c:150-168
Cacheable(connected, size, reset) ==
  connected /\ size <= MAX_OBJECT_SIZE /\ ~reset

\* open_clientfd_r, the two request writes and the forwarding loop,
\* proxy.c:117-165, then new_object when the response is to be cached,
\* proxy.c:168-174, else the closes and return, proxy.c:180-183.
\* connected: open_clientfd_r succeeded; size: the bytes the upstream sent;
\* reset: the upstream read ended with ECONNRESET.
Fetch(t, connected, size, reset) ==
  /\ cache_fault = NoFault
  /\ pc[t] = "fetch"
  /\ UNCHANGED reqvars
  /\ IF Cacheable(connected, size, reset)
     THEN /\ Fetched < MaxFetched
          /\ LET k == new_object(K, request[t], Response(request[t]), size) IN
               /\ CommitCache(k)
               /\ new_obj' = [new_obj EXCEPT ![t] = k.ret]
          /\ total_size' = [total_size EXCEPT ![t] = size]
          /\ Goto(t, "wrlock")
          /\ UNCHANGED <<request, retrieve, found, found_hold, holds, sent>>
     ELSE /\ Return(t)
          /\ UNCHANGED <<C, max_size, objects, freed, cache_fault>>
  /\ UNCHANGED <<rwlock, mmvars, inserted, clast>>

\* pthread_rwlock_wrlock(&rwlock); cache_insert(proxy_cache, new_obj),
\* proxy.c:175-176
Insert(t) ==
  /\ cache_fault = NoFault
  /\ pc[t] = "wrlock"
  /\ UNCHANGED reqvars
  /\ rwlock.writer = NoTask /\ rwlock.readers = {}
  /\ rwlock' = [rwlock EXCEPT !.writer = t]
  /\ LET k == cache_insert(K, new_obj[t]) IN
       /\ CommitCache(k)
       /\ clast' = [op |-> "cache_insert", obj |-> new_obj[t], ret |-> NULL,
                    evicted |-> k.evicted, where |-> "none",
                    req |-> request[t]]
  /\ inserted' = Append(inserted, [obj |-> new_obj[t],
                                   size |-> objects[new_obj[t]].size,
                                   req |-> request[t],
                                   linked |-> cache_fault' = NoFault,
                                   by |-> t])
  /\ Goto(t, "wrunlock")
  /\ UNCHANGED <<request, retrieve, found, found_hold, holds, total_size,
                 new_obj, sent, mmvars>>

\* pthread_rwlock_unlock(&rwlock); the closes and return, proxy.c:177-183
WrUnlock(t) ==
  /\ cache_fault = NoFault
  /\ pc[t] = "wrunlock"
  /\ UNCHANGED reqvars
  /\ rwlock' = [rwlock EXCEPT !.writer = NoTask]
  /\ Return(t)
  /\ UNCHANGED <<mmvars, cachevars>>

(* C1: a task that got a non-null object from find_request reads the       *)
(* object's response and size only inside the read-lock hold in which      *)
(* find_request returned it, and so never reads an object that a           *)
(* concurrent cache_insert has evicted and freed.                          *)
C1_ReadInsideFindHold ==
  \A t \in Tasks :
    sent[t].state # "nothing" =>
      /\ sent[t].hold = found_hold[t]
      /\ sent[t].state = "object bytes"

\* a task has read, under its second read-lock hold, an object that was
\* evicted and freed after the task's find_request returned it
C1_StaleRead ==
  \E t \in Tasks :
    /\ sent[t].state \in StaleOutcomes
    /\ sent[t].obj \in freed
    /\ sent[t].hold # found_hold[t]

(* C27: however the tasks interleave, no two objects resident in the       *)
(* cache have the same request line.                                       *)
C27_OneResidentObjectPerLine ==
  \A o1 \in Resident, o2 \in Resident :
    objects[o1].request = objects[o2].request => o1 = o2

\* C27's case: two tasks looked the same line up before either had
\* inserted, both missed, both fetched, and both objects are in the cache
C27_BothTasksInserted ==
  \E i \in DOMAIN inserted, j \in DOMAIN inserted :
    /\ inserted[i].by # NoTask /\ inserted[j].by # NoTask
    /\ inserted[i].by # inserted[j].by
    /\ inserted[i].req = inserted[j].req
    /\ {inserted[i].obj, inserted[j].obj} \subseteq Resident
    /\ \A t \in Tasks : pc[t] = "idle"

-----------------------------------------------------------------------------
(* proxy.c: one worker followed through new_request call by call, with its *)
(* errno and the state of its two sockets.  Bytes of the upstream's        *)
(* response are named by their offset in it: a run [at, src, len] says     *)
(* that the len bytes at offset at of a buffer are the len bytes at offset *)
(* src of the response.                                                    *)

\* the size of buf (csapp.h)
MAXLINE == 8192

\* reads of the upstream followed in one request
MaxReads == 14

\* what rio_readnb may return for one read: a full buffer or less
ReadSizes == {MAXLINE, MAXLINE \div 2}

\* request lines a client may send: two with the method GET, one with POST
GetLines == {1, 2}
ReqLines == GetLines \cup {3}

\* sscanf(buf, "%s %s %s", method, uri, version)
Method(line) == IF line \in GetLines THEN "GET" ELSE "POST"

\* the worker as a holder of rwlock
Worker == NTasks + 1

taskvars == <<pc, request, retrieve, found, found_hold, holds, total_size,
              new_obj, sent>>

\* a descriptor: closes counts the close() calls the task has made on it,
\* eof says that a read has met the end of the peer's stream
OpenSocket == [opened |-> TRUE, closed |-> FALSE, peer |-> "there",
               eof |-> FALSE, closes |-> 0]
NoSocket == [opened |-> FALSE, closed |-> FALSE, peer |-> "there",
             eof |-> FALSE, closes |-> 0]

WorkerStart ==
  /\ worker = [pc |-> "start", errno |-> "none", request |-> 0,
               method |-> "unread", retrieve |-> NULL, found |-> 0,
               connfd |-> OpenSocket, serverfd |-> NoSocket,
               flag |-> 1, total_size |-> 0, response |-> <<>>,
               buf |-> [src |-> 0, len |-> 0], reads |-> 0,
               hdr |-> "unset", turns |-> 0,
               scratch |-> "none", frees |-> 0]
  /\ observed = [line |-> 0, replies |-> <<>>, after |-> {},
                 to_client |-> <<>>, from_server |-> 0, reset |-> FALSE,
                 cfail |-> FALSE, sfail |-> FALSE, inserts |-> <<>>,
                 stale |-> FALSE]

\* memcpy(buffer + at, source + src, len) on a buffer given by its runs
WriteRun(runs, at, src, len) ==
  IF len = 0 THEN runs
  ELSE IF /\ runs # <<>>
          /\ runs[Len(runs)].at + runs[Len(runs)].len = at
          /\ runs[Len(runs)].src + runs[Len(runs)].len = src
  THEN [runs EXCEPT ![Len(runs)].len = @ + len]
  ELSE Append(runs, [at |-> at, src |-> src, len |-> len])

\* what a write on a socket may give: it fails with EBADF once the task has
\* closed the descriptor, with EPIPE once the peer is gone
WriteOutcomes(sock) ==
  IF sock.closed THEN {"EBADF"}
  ELSE IF sock.peer = "gone" THEN {"EPIPE"}
  ELSE {"ok", "EPIPE", "ECONNRESET", "EIO"}

\* the socket after a write or read on it ended with r
Written(sock, r) ==
  IF r \in {"EPIPE", "ECONNRESET"} THEN [sock EXCEPT !.peer = "gone"] ELSE sock

\* close(fd)
Closed(sock) == [sock EXCEPT !.closed = TRUE, !.closes = @ + 1]

\* clienterror(connfd, ...), proxy.c:302-333: four times
\* if(rio_writen(fd, ...) < 0) { if(errno != EPIPE) close(fd); }.
\* r is how the first write that fails ends and nth in 1..4 says which
\* write it is; after EPIPE the later writes fail with EPIPE again; after
\* any other failure fd is closed, each later write fails with EBADF and
\* fd is closed once more for each, 5 - nth times in all
clienterror(w, r, nth) ==
  IF r = "ok" THEN w
  ELSE IF r = "EPIPE"
  THEN [w EXCEPT !.errno = "EPIPE", !.connfd = Written(w.connfd, r)]
  ELSE [w EXCEPT !.errno = IF nth = 4 THEN r ELSE "EBADF",
                 !.connfd = [Written(w.connfd, r) EXCEPT
                               !.closed = TRUE, !.closes = @ + (5 - nth)]]

\* something the task did after the client had got an error reply
Did(o, what) ==
  IF o.replies # <<>> THEN [o EXCEPT !.after = o.after \cup {what}] ELSE o

\* the client is sent the reply `code`: its status line arrives unless the
\* first write fails
Replied(o, code, r, nth) ==
  LET o1 == IF r = "ok" \/ nth > 1 THEN Did(o, "client bytes") ELSE o IN
  [o1 EXCEPT !.replies = IF r = "ok" \/ nth > 1 THEN Append(o.replies, code)
                         ELSE o.replies,
             !.cfail = o.cfail \/ r = "EPIPE"]

\* Rio_readinitb; rio_readlineb(rio, buf, MAXLINE) and, when it fails, the
\* 400 reply; strcpy(request, buf), proxy.c:192-198.  `line` is what the
\* client sent; after a failed read, or one that met the end of the
\* stream at once (e = "EOF", the result 0), buf was never written and
\* `junk_line` is what request then holds
ReadLine(line, e, junk_line, r, nth) ==
  /\ cache_fault = NoFault
  /\ worker.pc = "start"
  /\ IF e = "ok"
     THEN /\ worker' = [worker EXCEPT !.request = line, !.pc = "method"]
          /\ observed' = [observed EXCEPT !.line = line]
     ELSE IF e = "EOF"
     THEN /\ worker' = [worker EXCEPT
                          !.request = junk_line,
                          !.connfd = [worker.connfd EXCEPT !.eof = TRUE],
                          !.pc = "method"]
          /\ UNCHANGED observed
     ELSE LET w1 == [worker EXCEPT !.errno = e,
                                   !.connfd = Written(worker.connfd, e)]
              o1 == [observed EXCEPT !.cfail = e = "ECONNRESET"]
          IN /\ r \in WriteOutcomes(w1.connfd)
             /\ worker' = [clienterror(w1, r, nth) EXCEPT
                             !.request = junk_line, !.pc = "method"]
             /\ observed' = Replied(o1, "400", r, nth)
  /\ UNCHANGED <<rwlock, taskvars, mmvars, cachevars>>

\* if(strcasecmp(method, "GET")) clienterror(... "501" ...); return, then
\* read_uri, proxy.c:199-203 and 96-97
CheckMethod(r, nth) ==
  /\ cache_fault = NoFault
  /\ worker.pc = "method"
  /\ IF Method(worker.request) = "GET"
     THEN /\ worker' = [worker EXCEPT !.method = "GET", !.pc = "hdrs"]
          /\ UNCHANGED observed
     ELSE /\ r \in WriteOutcomes(worker.connfd)
          /\ worker' = [clienterror(worker, r, nth) EXCEPT
                          !.method = Method(worker.request), !.pc = "hdrs"]
          /\ observed' = Replied(observed, "501", r, nth)
  /\ UNCHANGED <<rwlock, taskvars, mmvars, cachevars>>

\* what Rio_readlineb(rio, buf, MAXLINE) may do on the client's socket: it
\* stores a header line or the blank line "\r\n" in buf; at the end of the
\* stream it returns 0 and leaves buf as it was; when the read fails it
\* ends the process.  Once the stream has ended or the peer is gone there
\* are no more lines.  A read on a descriptor the task has closed fails,
\* unless the number has since been given to a connection accepted by
\* main, whose lines are then read
HeaderReads(sock) ==
  IF sock.closed THEN {"line", "blank", "EOF", "error"}
  ELSE IF sock.eof THEN {"EOF"}
  ELSE IF sock.peer = "gone" THEN {"EOF", "error"}
  ELSE {"line", "blank", "EOF", "error"}

\* cat_requesthdrs, proxy.c:258-283, one turn of
\* Rio_readlineb(rio, buf, MAXLINE); while(strcmp(buf, "\r\n")) { ...
\* Rio_readlineb(rio, buf, MAXLINE); }: the result of the read is not
\* looked at, the loop goes on until buf holds the blank line.  worker.hdr
\* is what buf holds, worker.turns the number of reads made modulo 2; the
\* client's header lines are of the five that the proxy replaces, which
\* are not appended to req_headers.  `got` is what the read does and
\* `junk_hdr` what buf holds when it was never written
cat_requesthdrs(got, junk_hdr) ==
  /\ cache_fault = NoFault
  /\ worker.pc = "hdrs"
  /\ got \in HeaderReads(worker.connfd)
  /\ IF got = "error"
     THEN worker' = [worker EXCEPT !.pc = "exit"]
     ELSE LET held == IF got # "EOF" THEN got
                      ELSE IF worker.hdr = "unset" THEN junk_hdr
                      ELSE worker.hdr
          IN worker' = [worker EXCEPT
                          !.hdr = held,
                          !.turns = 1 - @,
                          !.connfd = IF got = "EOF"
                                     THEN [@ EXCEPT !.eof = TRUE] ELSE @,
                          !.pc = IF held = "blank" THEN "lookup" ELSE "hdrs"]
  /\ UNCHANGED <<observed, rwlock, taskvars, mmvars, cachevars>>

\* pthread_rwlock_rdlock; retrieve = find_request(proxy_cache, request);
\* if(retrieve != NULL) found = 1; pthread_rwlock_unlock, proxy.c:101-107
CheckCache ==
  /\ cache_fault = NoFault
  /\ worker.pc = "lookup"
  /\ rwlock.writer = NoTask
  /\ LET obj == find_request(K, worker.request) IN
       worker' = [worker EXCEPT !.retrieve = obj,
                                !.found = IF obj # NULL THEN 1 ELSE 0,
                                !.pc = IF obj # NULL THEN "hit" ELSE "connect"]
  /\ observed' = Did(observed, "cache")
  /\ UNCHANGED <<rwlock, taskvars, mmvars, cachevars>>

\* the hit: rio_writen(connfd, retrieve->response, retrieve->size) under
\* the read lock; if(errno != EPIPE) close(connfd); return, proxy.c:108-115
SendHit(r) ==
  /\ cache_fault = NoFault
  /\ worker.pc = "hit"
  /\ rwlock.writer = NoTask
  /\ r \in WriteOutcomes(worker.connfd)
  /\ LET w1 == [worker EXCEPT !.errno = IF r = "ok" THEN @ ELSE r,
                              !.connfd = Written(worker.connfd, r)]
     IN worker' = [w1 EXCEPT !.connfd = IF w1.errno # "EPIPE"
                                        THEN Closed(w1.connfd) ELSE w1.connfd,
                             !.pc = "done"]
  /\ observed' = [(IF r = "ok" THEN Did(observed, "client bytes")
                   ELSE observed) EXCEPT !.cfail = observed.cfail \/ r = "EPIPE"]
  /\ UNCHANGED <<rwlock, taskvars, mmvars, cachevars>>

\* serverfd = open_clientfd_r(host, req_port); when it fails the 404 reply,
\* close(connfd) and return, proxy.c:118-126
Connect(connected, r, nth) ==
  /\ cache_fault = NoFault
  /\ worker.pc = "connect"
  /\ IF connected
     THEN /\ worker' = [worker EXCEPT !.serverfd = OpenSocket, !.pc = "request"]
          /\ observed' = Did(observed, "upstream")
     ELSE /\ r \in WriteOutcomes(worker.connfd)
          /\ LET w1 == clienterror(worker, r, nth) IN
               worker' = [w1 EXCEPT !.connfd = Closed(w1.connfd), !.pc = "done"]
          /\ observed' = Replied(observed, "404", r, nth)
  /\ UNCHANGED <<rwlock, taskvars, mmvars, cachevars>>

\* sprintf(buf, ...); rio_writen(serverfd, buf, strlen(buf)) for the
\* request line and then for the headers; when it fails
\* if(errno != EPIPE) close(serverfd); close(connfd); return.  After the
\* second, response = Malloc(MAX_OBJECT_SIZE) and memset, proxy.c:127-147
WriteUpstream(r) ==
  /\ cache_fault = NoFault
  /\ worker.pc \in {"request", "headers"}
  /\ r \in WriteOutcomes(worker.serverfd)
  /\ IF r = "ok"
     THEN worker' = IF worker.pc = "request"
                    THEN [worker EXCEPT !.pc = "headers"]
                    ELSE [worker EXCEPT !.flag = 1, !.total_size = 0,
                                        !.response = <<>>,
                                        !.scratch = "live", !.pc = "read"]
     ELSE LET s1 == Written(worker.serverfd, r) IN
          worker' = [worker EXCEPT
                       !.errno = r,
                       !.serverfd = IF r # "EPIPE" THEN Closed(s1) ELSE s1,
                       !.connfd = Closed(worker.connfd),
                       !.pc = "done"]
  /\ observed' = [observed EXCEPT !.sfail = observed.sfail \/ r = "EPIPE"]
  /\ UNCHANGED <<rwlock, taskvars, mmvars, cachevars>>

\* the test of the insertion, proxy.c:168 (variant: the reset is not looked at)
ShouldCache_despite_reset(flag, errno) == flag = 1

\* if(flag && (errno != ECONNRESET)), proxy.c:168
ShouldCache(flag, errno) == flag = 1 /\ errno # "ECONNRESET"

\* free(response), proxy.c:156 and 173
Freed(w) == [w EXCEPT !.scratch = "freed", !.frees = @ + 1]

\* memcpy(response + total_size, buf, rc); total_size += rc, proxy.c:151-152
Appended(w, rc) ==
  [w EXCEPT !.response = WriteRun(w.response, w.total_size, w.buf.src, rc),
            !.total_size = w.total_size + rc]

\* rc = rio_readnb(&rio_toserver, buf, MAXLINE) and, when rc > 0, the
\* accumulation into the scratch or flag = 0; free(response),
\* proxy.c:148-158.  e is how the read ends; observed.stale records a
\* memcpy to or from a scratch that is not live
ReadChunk(rc, e) ==
  /\ cache_fault = NoFault
  /\ worker.pc = "read"
  /\ IF e = "ok" /\ rc > 0
     THEN /\ worker.reads < MaxReads
          /\ LET w1 == [worker EXCEPT
                          !.buf = [src |-> observed.from_server, len |-> rc],
                          !.reads = worker.reads + 1, !.pc = "forward"]
             IN worker' = IF w1.flag = 1
                          THEN IF w1.total_size + rc <= MAX_OBJECT_SIZE
                               THEN Appended(w1, rc)
                               ELSE Freed([w1 EXCEPT !.flag = 0])
                          ELSE w1
          /\ observed' = [observed EXCEPT
                            !.from_server = @ + rc,
                            !.stale = @ \/ (/\ worker.flag = 1
                                            /\ worker.total_size + rc
                                                 <= MAX_OBJECT_SIZE
                                            /\ worker.scratch # "live")]
     ELSE IF e = "ok"
     THEN /\ worker' = [worker EXCEPT !.pc = "ended"]
          /\ UNCHANGED observed
     ELSE /\ rc = 0
          /\ worker' = [worker EXCEPT
                          !.errno = e,
                          !.serverfd = Written(worker.serverfd, e),
                          !.pc = "ended"]
          /\ observed' = [observed EXCEPT !.reset = e = "ECONNRESET",
                                          !.sfail = observed.sfail
                                                      \/ e = "ECONNRESET"]
  /\ UNCHANGED <<rwlock, taskvars, mmvars, cachevars>>

\* where the bytes of a buffer end
RunsEnd(runs) ==
  IF runs = <<>> THEN 0 ELSE runs[Len(runs)].at + runs[Len(runs)].len

\* rio_writen(connfd, buf, rc); when it fails
\* if(errno != EPIPE) close(connfd); close(serverfd); return, proxy.c:159-164
ForwardChunk(r) ==
  /\ cache_fault = NoFault
  /\ worker.pc = "forward"
  /\ r \in WriteOutcomes(worker.connfd)
  /\ IF r = "ok"
     THEN /\ worker' = [worker EXCEPT !.pc = "read"]
          /\ observed' = [Did(observed, "client bytes") EXCEPT
                            !.to_client = WriteRun(observed.to_client,
                                                   RunsEnd(observed.to_client),
                                                   worker.buf.src,
                                                   worker.buf.len)]
     ELSE /\ LET c1 == Written(worker.connfd, r) IN
               worker' = [worker EXCEPT
                            !.errno = r,
                            !.connfd = IF r # "EPIPE" THEN Closed(c1) ELSE c1,
                            !.serverfd = Closed(worker.serverfd),
                            !.pc = "done"]
          /\ observed' = [observed EXCEPT !.cfail = observed.cfail \/ r = "EPIPE"]
  /\ UNCHANGED <<rwlock, taskvars, mmvars, cachevars>>

\* the first n bytes of a buffer
Take(runs, n) ==
  LET kept == SelectSeq(runs, LAMBDA x : x.at < n) IN
  [i \in DOMAIN kept |->
     [kept[i] EXCEPT !.len = IF kept[i].at + @ <= n THEN @ ELSE n - kept[i].at]]

\* new_req and new_resp are copies of request and of the first total_size
\* bytes of the scratch; free(response); new_object; pthread_rwlock_wrlock;
\* cache_insert, proxy.c:168-176
AddToCache ==
  /\ cache_fault = NoFault
  /\ worker.pc = "ended"
  /\ ShouldCache(worker.flag, worker.errno)
  /\ rwlock.writer = NoTask /\ rwlock.readers = {}
  /\ rwlock' = [rwlock EXCEPT !.writer = Worker]
  /\ LET k1 == new_object(K, worker.request,
                          Take(worker.response, worker.total_size),
                          worker.total_size)
         k == cache_insert(k1, k1.ret)
     IN /\ CommitCache(k)
        /\ clast' = [op |-> "cache_insert", obj |-> k1.ret, ret |-> NULL,
                     evicted |-> k.evicted, where |-> "none",
                     req |-> worker.request]
        /\ inserted' = Append(inserted, [obj |-> k1.ret,
                                         size |-> worker.total_size,
                                         req |-> worker.request,
                                         linked |-> k.fault = NoFault,
                                         by |-> Worker])
        /\ observed' = [Did(observed, "cache") EXCEPT
                          !.inserts = Append(@, [obj |-> k1.ret,
                                                 writer |-> rwlock'.writer]),
                          !.stale = @ \/ worker.scratch # "live"]
  /\ worker' = [Freed(worker) EXCEPT !.pc = "inserted"]
  /\ UNCHANGED <<taskvars, mmvars>>

\* pthread_rwlock_unlock after the insertion; if(errno != ECONNRESET)
\* close(serverfd); close(connfd); return, proxy.c:177-183
CloseBoth ==
  /\ cache_fault = NoFault
  /\ \/ worker.pc = "inserted"
     \/ worker.pc = "ended" /\ ~ShouldCache(worker.flag, worker.errno)
  /\ rwlock' = IF worker.pc = "inserted"
               THEN [rwlock EXCEPT !.writer = NoTask] ELSE rwlock
  /\ worker' = [worker EXCEPT
                  !.serverfd = IF worker.errno # "ECONNRESET"
                               THEN Closed(worker.serverfd)
                               ELSE worker.serverfd,
                  !.connfd = Closed(worker.connfd),
                  !.pc = "done"]
  /\ UNCHANGED <<observed, taskvars, mmvars, cachevars>>

(* C15: once the client has got an error reply (400, 501 or 404) the task  *)
(* does nothing more for the request: it makes no cache lookup or          *)
(* insertion, contacts no upstream and sends the client no further bytes.  *)
C15_ErrorReplyEndsTask == observed.replies # <<>> => observed.after = {}

\* C15's case: a POST line was answered with 501 and the task went on to
\* connect to the upstream, forward its bytes and cache them under that line
C15_CarriesOnAfter501 ==
  /\ observed.replies = <<"501">>
  /\ observed.after = {"cache", "upstream", "client bytes"}
  /\ observed.inserts # <<>>
  /\ worker.pc = "done"

C17_SocketsClosedOnExit ==
  worker.pc = "done" =>
    /\ worker.connfd.closed \/ observed.cfail
    /\ worker.serverfd.opened => (worker.serverfd.closed \/ observed.sfail)

\* C17's case: the task returned through the closes at the end of
\* new_request with an errno of ECONNRESET that no read of the upstream set,
\* and left the upstream socket open
C17_StaleErrnoLeak ==
  /\ worker.pc = "done"
  /\ worker.errno = "ECONNRESET"
  /\ ~observed.reset
  /\ worker.serverfd.opened /\ ~worker.serverfd.closed
  /\ worker.serverfd.peer = "there"

\* the peer of a descriptor has closed its end or the connection has failed
PeerGone(sock) == sock.eof \/ sock.peer = "gone"

\* new_request has returned, or the process has ended
TaskOver == worker.pc \in {"done", "exit"}

(* C25: once the client's connection has closed or failed, and the         *)
(* upstream's too if one was contacted, the worker eventually ends: it     *)
(* does not go on for ever at the request line, in the header lines or in  *)
(* the response stream.                                                    *)
C25_TaskEndsOncePeersGone ==
  (/\ PeerGone(worker.connfd)
   /\ worker.serverfd.opened => PeerGone(worker.serverfd)) ~> TaskOver

\* C25's case: the client sent its request line and a header line and then
\* closed; cat_requesthdrs has read the end of the stream, buf still holds
\* the header line, and the loop has come round to the same place again
C25_HeaderLoopAtEndOfStream ==
  /\ worker.pc = "hdrs"
  /\ worker.connfd.eof
  /\ worker.hdr = "line"
  /\ HeaderReads(worker.connfd) = {"EOF"}
  /\ worker.turns = 0

(* C26: a worker that has allocated the scratch buffer has released it     *)
(* exactly once when it returns: the buffer is not left allocated, free is *)
(* not called on it twice, and no memcpy touches it after the free.        *)
C26_ScratchReleasedOnce ==
  /\ worker.frees <= 1
  /\ ~observed.stale
  /\ (worker.pc = "done" /\ worker.scratch # "none") => worker.scratch = "freed"

\* C26's case: the write to the client failed while the response was still
\* being gathered, and the task returned with the scratch allocated
C26_ScratchLeaked ==
  /\ worker.pc = "done"
  /\ worker.scratch = "live"
  /\ worker.flag = 1
  /\ worker.frees = 0
  /\ observed.to_client # <<>>

(* C28: a worker calls close at most once on each of its descriptors,      *)
(* whatever the writes of an error reply do.                               *)
C28_NoDescriptorClosedTwice ==
  /\ worker.connfd.closes <= 1
  /\ worker.serverfd.closes <= 1

\* C28's case: the upstream could not be reached, the last write of the 404
\* reply failed and clienterror closed connfd, which new_request then
\* closed again
C28_ClosedAgainAfterErrorReply ==
  /\ worker.pc = "done"
  /\ observed.replies = <<"404">>
  /\ worker.errno = "ECONNRESET"
  /\ worker.connfd.closes = 2

-----------------------------------------------------------------------------
(* Initial states and next-state relations *)

CacheStart(ms) ==
  /\ C = cache_init(ms)
  /\ max_size = ms
  /\ objects = <<>>
  /\ freed = {}
  /\ inserted = <<>>
  /\ cache_fault = NoFault
  /\ clast = [op |-> "cache_init", obj |-> NULL, ret |-> NULL, evicted |-> 0,
              where |-> "none", req |-> 0]

\* The proxy's cache after n requests for the lines 1..n, each answered
\* with MAX_OBJECT_SIZE bytes, have been served one after the other: the
\* cache record and the calls of cache_insert made
RECURSIVE Served(_)
Served(n) ==
  IF n = 0
  THEN [k |-> [C |-> cache_init(MAX_CACHE_SIZE), objects |-> <<>>,
               freed |-> {}, fault |-> NoFault, ret |-> NULL, evicted |-> 0],
        inserted |-> <<>>]
  ELSE LET w == Served(n - 1)
           k1 == new_object(w.k, n, Response(n), MAX_OBJECT_SIZE)
           k2 == cache_insert([k1 EXCEPT !.evicted = 0], k1.ret)
       IN [k |-> k2,
           inserted |-> Append(w.inserted,
                               [obj |-> k1.ret, size |-> MAX_OBJECT_SIZE,
                                req |-> n, linked |-> k2.fault = NoFault,
                                by |-> NoTask])]

\* the number of MAX_OBJECT_SIZE objects the cache holds without evicting
FullCount == MAX_CACHE_SIZE \div MAX_OBJECT_SIZE

\* the proxy is observed from a cold start and from a full cache
ServedCounts == {0, FullCount}

ProxyCacheStart(n) ==
  LET w == Served(n) IN
  /\ C = w.k.C
  /\ max_size = MAX_CACHE_SIZE
  /\ objects = w.k.objects
  /\ freed = w.k.freed
  /\ inserted = w.inserted
  /\ cache_fault = w.k.fault
  /\ clast = IF n = 0
             THEN [op |-> "cache_init", obj |-> NULL, ret |-> NULL,
                   evicted |-> 0, where |-> "none", req |-> 0]
             ELSE [op |-> "cache_insert", obj |-> w.k.C.MRA, ret |-> NULL,
                   evicted |-> w.k.evicted, where |-> "none", req |-> n]

ProxyStart ==
  /\ rwlock = [readers |-> {}, writer |-> NoTask]
  /\ pc = [t \in Tasks |-> "idle"]
  /\ request = [t \in Tasks |-> 0]
  /\ retrieve = [t \in Tasks |-> NULL]
  /\ found = [t \in Tasks |-> 0]
  /\ found_hold = [t \in Tasks |-> 0]
  /\ holds = [t \in Tasks |-> 0]
  /\ total_size = [t \in Tasks |-> 0]
  /\ new_obj = [t \in Tasks |-> NULL]
  /\ sent = [t \in Tasks |-> NoSent]
  /\ WorkerStart

\* the allocator before its first call
MMStart ==
  /\ mem = <<>>
  /\ mem_brk = mem_start
  /\ mem_max \in {mem_start + c : c \in HeapCaps}
  /\ junk \in JunkBytes
  /\ heap_listp = 0
  /\ seg_listp = 0
  /\ last_segp = 0
  /\ live = <<>>
  /\ last = [op |-> "none", ptr |-> NULL, size |-> 0, ret |-> NULL,
             sbrk_failed |-> FALSE]
  /\ crashed = NoFault
  /\ ncalls = 0

MMInit == MMStart /\ CacheStart(CacheCap) /\ ProxyStart

(* Arguments a caller may pass.  The early-return arguments (size 0, a *)
(* NULL pointer, nmemb 0) are tried during the first EdgeCalls calls.   *)
EdgeCalls == 2

Sizes == IF ncalls < EdgeCalls THEN ReqSizes \cup {0} ELSE ReqSizes
Ptrs == IF ncalls < EdgeCalls THEN DOMAIN live \cup {NULL} ELSE DOMAIN live
Counts == IF ncalls < EdgeCalls THEN {0, 3} ELSE {3}

MMNext ==
  \/ MmInit
  \/ \E size \in Sizes : Malloc(size)
  \/ \E ptr \in Ptrs : Free(ptr)
  \/ \E oldptr \in Ptrs, size \in Sizes : Realloc(oldptr, size)
  \/ \E nmemb \in Counts : Calloc(nmemb, CallocSize)
  \/ \E ptr \in DOMAIN live, c \in Patterns : UserWrite(ptr, c)

SpecMM == MMInit /\ [][MMNext]_vars

MaxCacheObjects == 4

CacheInit == MMStart /\ mem_max = mem_start + MaxHeap /\ CacheStart(CacheCap)
             /\ ProxyStart

CacheNext ==
  \/ \E req \in Requests, obj_size \in ObjSizes :
       /\ Cardinality(DOMAIN objects \cup freed) < MaxCacheObjects
       /\ NewObject(req, obj_size)
  \/ \E obj \in Detached : CacheInsert(obj)
  \/ \E obj \in Resident : CacheRemove(obj)
  \/ \E req \in Requests : FindRequest(req)

SpecCache == CacheInit /\ [][CacheNext]_vars

\* one request, served from a cold cache or from a cache that holds the
\* answer to line 1
RequestInit ==
  /\ MMStart
  /\ mem_max = mem_start + MaxHeap
  /\ \E n \in {0, 1} : ProxyCacheStart(n)
  /\ ProxyStart

ReadErrors == {"ECONNRESET", "EIO"}
WriteResults == {"ok", "EPIPE", "ECONNRESET", "EIO", "EBADF"}

\* the four writes of clienterror
Writes == 1..4

RequestNext ==
  \/ \E line \in ReqLines, e \in {"ok", "EOF"} \cup ReadErrors,
        junk_line \in ReqLines, r \in WriteResults, nth \in Writes :
       /\ e = "ok" => junk_line = line
       /\ e # "ok" => line = 1
       /\ e \in {"ok", "EOF"} => r = "ok"
       /\ r \in {"ok", "EBADF"} => nth = 1
       /\ ReadLine(line, e, junk_line, r, nth)
  \/ \E r \in WriteResults, nth \in Writes :
       /\ r \in {"ok", "EBADF"} => nth = 1
       /\ CheckMethod(r, nth)
  \/ \E got \in {"line", "blank", "EOF", "error"}, junk_hdr \in {"line", "blank"} :
       /\ (got # "EOF" \/ worker.hdr # "unset") => junk_hdr = "line"
       /\ cat_requesthdrs(got, junk_hdr)
  \/ CheckCache
  \/ \E r \in WriteResults : SendHit(r)
  \/ \E connected \in BOOLEAN, r \in WriteResults, nth \in Writes :
       /\ r \in {"ok", "EBADF"} => nth = 1
       /\ connected => r = "ok"
       /\ Connect(connected, r, nth)
  \/ \E r \in WriteResults : WriteUpstream(r)
  \/ \E rc \in ReadSizes \cup {0}, e \in {"ok"} \cup ReadErrors : ReadChunk(rc, e)
  \/ \E r \in WriteResults : ForwardChunk(r)
  \/ AddToCache
  \/ CloseBoth

SpecRequest == RequestInit /\ [][RequestNext]_vars

\* the worker is a thread that the scheduler keeps running: a step that it
\* can take is taken
SpecRequestFair == SpecRequest /\ WF_vars(RequestNext)

(* C13: in the running proxy every object inserted has size at most        *)
(* MAX_OBJECT_SIZE, bytes_left stays within 0..MAX_CACHE_SIZE, the         *)
(* resident sizes never exceed MAX_CACHE_SIZE, and no insert's eviction    *)
(* loop asks cache_remove for an object of an empty cache.                 *)
C13_ProxyCacheBounded ==
  /\ \A i \in DOMAIN inserted : inserted[i].size <= MAX_OBJECT_SIZE
  /\ C.bytes_left >= 0 /\ C.bytes_left <= MAX_CACHE_SIZE
  /\ SumSizes(Resident) <= MAX_CACHE_SIZE
  /\ cache_fault # "cache_remove: obj->size with obj == NULL"

\* C13's case: a task's insert into the full cache has evicted an object
C13_Witness ==
  /\ clast.op = "cache_insert" /\ clast.evicted >= 1
  /\ inserted[Len(inserted)].by # NoTask
  /\ Cardinality(Resident) >= FullCount

(* find_fit applied to heaps with long class lists.  Such a heap is built  *)
(* by FitBlocks pairs of calls malloc(size); malloc(1) and then free of    *)
(* each first pointer, lowest address first: free blocks of the chosen     *)
(* sizes, kept apart by allocated ones, the last freed at the head of its  *)
(* list.                                                                   *)
FitBlocks == 11
FitHeap == 2048
FitReq == {24, 56}
FitSizes == {32, 40, 48, 72, 80, 200, 1024}

FitInit ==
  /\ mem = <<>>
  /\ mem_brk = mem_start
  /\ mem_max = mem_start + FitHeap
  /\ junk \in JunkBytes
  /\ heap_listp = 0
  /\ seg_listp = 0
  /\ last_segp = 0
  /\ live = <<>>
  /\ last = [op |-> "none", ptr |-> NULL, size |-> 0, ret |-> NULL,
             sbrk_failed |-> FALSE]
  /\ crashed = NoFault
  /\ ncalls = 0
  /\ CacheStart(CacheCap)
  /\ ProxyStart

\* the pointers that are to be freed, and the one freed next
FitToFree == {p \in DOMAIN live : live[p].req # 1}
FitLowest == CHOOSE p \in FitToFree : \A q \in FitToFree : p <= q

\* malloc(size) and malloc(1) in turn
FitMalloc(size) ==
  /\ crashed = NoFault
  /\ last.op \in {"none", "malloc"}
  /\ Cardinality(DOMAIN live) < 2 * FitBlocks
  /\ (Cardinality(DOMAIN live) % 2 = 1) <=> (size = 1)
  /\ Returned("malloc", NULL, size, malloc(Heap, size),
              AfterAlloc(malloc(Heap, size), size, NoPat, 0))

FitRelease ==
  /\ crashed = NoFault
  /\ Cardinality(DOMAIN live) = 2 * FitBlocks \/ last.op = "free"
  /\ FitToFree # {}
  /\ Returned("free", FitLowest, GET_SIZE(mem, HDRP(FitLowest)),
              [free(Heap, FitLowest) EXCEPT !.ret = NULL],
              Without(live, FitLowest))

\* find_fit(asize) on the heap as it is: the result is kept in last
FitApplied(asize, f) ==
  /\ last' = [op |-> "find_fit", ptr |-> NULL, size |-> asize,
              ret |-> f.ret, sbrk_failed |-> FALSE]
  /\ crashed' = f.crash
  /\ UNCHANGED <<mem, mem_brk, mem_max, junk, heap_listp, seg_listp,
                 last_segp, live, ncalls, cachevars, proxyvars>>

FindFit(asize) ==
  /\ crashed = NoFault
  /\ last.op \in {"free", "find_fit"}
  /\ FitToFree = {}
  /\ FitApplied(asize, find_fit(Heap, asize))

FitNext ==
  \/ \E size \in FitReq \cup {1} : FitMalloc(size)
  \/ FitRelease
  \/ \E asize \in FitSizes : FindFit(asize)

SpecFit == FitInit /\ [][FitNext]_vars

\* the blocks of class i that fit asize, in list order, and the first ten
FitsIn(i, asize) ==
  SelectSeq(ClassList(i), LAMBDA bp : GET_SIZE(mem, HDRP(bp)) >= asize)

FirstTen(seq) == SubSeq(seq, 1, MIN(10, Len(seq)))

\* the smallest block of a non-empty sequence, the earliest of equals
Smallest(seq) ==
  seq[CHOOSE j \in DOMAIN seq :
        \A k \in DOMAIN seq :
          /\ GET_SIZE(mem, HDRP(seq[j])) <= GET_SIZE(mem, HDRP(seq[k]))
          /\ GET_SIZE(mem, HDRP(seq[j])) = GET_SIZE(mem, HDRP(seq[k])) => j <= k]

\* the classes at or above bucket(asize) that hold a fitting block
FitClasses(asize) ==
  {i \in Classes : i * DSIZE >= bucket(asize) /\ FitsIn(i, asize) # <<>>}

FirstFitClass(asize) ==
  CHOOSE i \in FitClasses(asize) : \A j \in FitClasses(asize) : i <= j

\* the nodes of class i that find_fit(asize) visits, in order
Visited(i, asize) ==
  SubSeq(ClassList(i), 1,
         find_fit_class_steps(mem, GET(mem, seg_listp + i * DSIZE), asize,
                              NULL, 0, 0))

\* the classes find_fit(asize) walks: from bucket(asize) up to the first
\* that holds a fitting block
Searched(asize) ==
  {i \in Classes :
     /\ i * DSIZE >= bucket(asize)
     /\ \A j \in FitClasses(asize) : i <= j}

RECURSIVE SumVisited(_, _)
SumVisited(S, asize) ==
  IF S = {} THEN 0
  ELSE LET i == CHOOSE x \in S : TRUE IN
       Len(Visited(i, asize)) + SumVisited(S \ {i}, asize)

(* C24: one find_fit call takes at most 10 * SEGS free-list steps, at most *)
(* ten list nodes visited in any one class, whatever the free blocks in    *)
(* the class lists.                                                        *)
C24_AtMostTenNodesPerClass ==
  (last.op = "find_fit" /\ crashed = NoFault) =>
    /\ \A i \in Searched(last.size) : Len(Visited(i, last.size)) <= 10
    /\ SumVisited(Searched(last.size), last.size) <= 10 * SEGS

(* C24, amended: in any one class find_fit visits at most ten nodes that   *)
(* fit (size >= asize), so at most 10 * SEGS fitting nodes in a call, and  *)
(* returns one of the nodes visited; nodes that do not fit are stepped     *)
(* over uncounted, so the nodes visited in a class are bounded by the      *)
(* length of its list only.                                                *)
C24_AtMostTenFitsPerClass ==
  (last.op = "find_fit" /\ crashed = NoFault) =>
    /\ \A i \in Searched(last.size) :
         /\ Len(SelectSeq(Visited(i, last.size),
                          LAMBDA bp : GET_SIZE(mem, HDRP(bp)) >= last.size))
              <= 10
         /\ Len(Visited(i, last.size)) <= Len(ClassList(i))
    /\ last.ret # NULL =>
         last.ret \in Range(Visited(FirstFitClass(last.size), last.size))

\* C24's case: find_fit walked a class list of more than ten blocks none of
\* which fits, and found its block in a higher class
C24_Witness ==
  /\ last.op = "find_fit" /\ crashed = NoFault /\ last.ret # NULL
  /\ \E i \in Searched(last.size) :
       /\ Len(Visited(i, last.size)) > 10
       /\ FitsIn(i, last.size) = <<>>

(* C20: find_fit(asize) returns null iff no free block of the heap has     *)
(* size >= asize; otherwise it returns, from the first class at or above   *)
(* bucket(asize) that holds a fitting block, the smallest (the earliest of *)
(* equals) of the first ten fitting blocks of that class.                  *)
C20_FindFitResult ==
  (last.op = "find_fit" /\ crashed = NoFault) =>
    /\ (last.ret = NULL) <=>
         ~\E bp \in Range(HeapBlocks) :
            IsFree(mem, bp) /\ GET_SIZE(mem, HDRP(bp)) >= last.size
    /\ last.ret # NULL =>
         /\ FitClasses(last.size) # {}
         /\ last.ret =
              Smallest(FirstTen(FitsIn(FirstFitClass(last.size), last.size)))

\* C20's case: the class holds more than ten fitting blocks and one beyond
\* the tenth is smaller than the block find_fit returned
C20_Witness ==
  /\ last.op = "find_fit" /\ last.ret # NULL
  /\ LET fits == FitsIn(FirstFitClass(last.size), last.size) IN
       /\ Len(fits) > 10
       /\ \E k \in DOMAIN fits :
            /\ k > 10
            /\ GET_SIZE(mem, HDRP(fits[k])) < GET_SIZE(mem, HDRP(last.ret))

\* the cache used as the proxy uses it: objects are inserted and looked up,
\* and leave only by eviction
InsertFindNext ==
  \/ \E req \in Requests, obj_size \in ObjSizes :
       /\ Cardinality(DOMAIN objects \cup freed) < MaxCacheObjects
       /\ NewObject(req, obj_size)
  \/ \E obj \in Detached : CacheInsert(obj)
  \/ \E req \in Requests : FindRequest(req)

SpecInsertFind == CacheInit /\ [][InsertFindNext]_vars

ProxyInit == /\ MMStart /\ mem_max = mem_start + MaxHeap
             /\ \E n \in ServedCounts : ProxyCacheStart(n)
             /\ ProxyStart

ProxyNext ==
  \E t \in Tasks :
    \/ \E key \in 1..MIN(LastKey + 1, MaxKeys) : Lookup(t, key)
    \/ Unlock(t)
    \/ SendCached(t)
    \/ Unlock2(t)
    \/ \E connected \in BOOLEAN, size \in RespSizes, reset \in BOOLEAN :
         Fetch(t, connected, size, reset)
    \/ Insert(t)
    \/ WrUnlock(t)

SpecProxy == ProxyInit /\ [][ProxyNext]_vars

=============================================================================
